---- MODULE Spec2Model ----
(***************************************************************************)
(* Luma smart-helmet firmware: sample buffer, local fallback detector,     *)
(* windowed classifier, event arbiter and LED state machine, as one state  *)
(* machine.  Modelled from src/IoT/Luma App/esp32_firmware (main.cpp,      *)
(* classifier.h) and src/Sensing/IoT/Luma App/esp32_firmware               *)
(* (feature_extraction.h).  The command handlers of the two other builds,  *)
(* src/IoT/esp32_firmware and src/Luma/firmware, are modelled beside it.   *)
(*                                                                         *)
(* Units.  Floats are fixed point: acceleration in 0.01 g, jerk in         *)
(* 0.01 g/s, angular rate in 0.1 deg/s, confidence and the dimensionless   *)
(* features in 0.001.  Time is the millisecond clock.                      *)
(***************************************************************************)
EXTENDS Integers, Sequences, FiniteSets, TLC

----------------------------------------------------------------------------
(* State *)

VARIABLES
    pc,                \* "setup", "error", "loop" (top of loop()), "capture"
    clock,             \* millis()
    mpuOk,             \* what initMPU6500() returned to setup()
    errorLit,          \* the error indicator of setup() shows red
    bleInit,           \* initBLE() has run
    deviceConnected,
    imuBuffer, bufferIndex, bufferFull,
    lastAccelMag,      \* detectEventTrigger's previous magnitude
    lastMagLocal,      \* loop()'s static previous magnitude
    lastLocalBrakeMs, lastLocalCrashMs,
    lastMLBrakeMs, lastMLCrashMs, lastMLAttemptMs,
    currentPattern, savedPattern, lastLEDUpdate, ledAnimationStep,
    brakeEndTime, connectGreenUntil,
    lastSampleTime,
    loopNow,           \* loop()'s local now, live during the extra capture
    capI, capT0,       \* capturePostSamples' i and t0
    capLedsAt,         \* history: millis() at the last updateLEDs call since
                       \* capturePostSamples last appended a sample, or -1
    op,                \* history: what the last step did
    nAppended,         \* history: samples appended to the ring buffer
    currentState, previousState,   \* the legacy firmware's HelmetState pair
    legacyPc,          \* the legacy firmware: where its loop() stands
    sensorData,        \* the legacy loop()'s local sensorData (the two flags)
    currentTime,       \* the legacy loop()'s local currentTime
    lastSensorRead, brakeStartTime, crashDetectedTime,
    cbPc,              \* the legacy CommandCallbacks::onWrite: where it stands
    cbCommand,         \* the legacy CommandCallbacks::onWrite's local command
    crashRun,          \* history: the current run of crash-condition ticks
    brakeRun,          \* history: the current run of brake-jerk ticks
    preBrake,          \* history: the pattern shown when Brake was requested
    features,          \* classifyAndRespondToEvent: float features[N_FEATURES]
    clsOut,            \* classifyAndRespondToEvent: int cls
    confOut,           \* classifyAndRespondToEvent: float conf
    nEvents, nJumps, nShort, nCallbacks, nBlinks   \* history: budget counters

----------------------------------------------------------------------------
(* Bounds of the model *)

\* EVENT_WINDOW_SIZE is 150 in the source; the window is scaled down.
EVENT_WINDOW_SIZE == 3
\* capturePostSamples(25) in the source; the extra capture is scaled down.
POST_SAMPLES == 2
\* samples read from the sensor in one run
MaxSamples == 6
\* samples other than the at-rest reading in one run
MaxEvents == 2
\* delays longer than one sample interval in one run
MaxJumps == 2
\* delays shorter than one sample interval in one run
MaxShort == 1
\* connect / disconnect / command callbacks in one run
MaxCallbacks == 2
\* blink periods of the error indicator in one run
MaxBlinks == 3
\* samples and link callbacks together in one run
MaxInputs == 7
\* modulus of the unsigned millisecond clock (2^32 on the target)
ULONG_MOD == 1073741824

----------------------------------------------------------------------------
(* Program constants *)

IMU_SAMPLE_RATE == 50
SAMPLE_INTERVAL_MS == 1000 \div IMU_SAMPLE_RATE
LED_COUNT == 12

LOCAL_BRAKE_COOLDOWN_MS == 400
LOCAL_CRASH_COOLDOWN_MS == 3000
ML_BRAKE_COOLDOWN_MS == 1500
ML_CRASH_COOLDOWN_MS == 5000
ML_ATTEMPT_COOLDOWN_MS == 800

\* the cooldowns of the other firmware variant, src/IoT/esp32_firmware
IOT_LOCAL_BRAKE_COOLDOWN_MS == 200
IOT_LOCAL_CRASH_COOLDOWN_MS == 2500
IOT_ML_BRAKE_COOLDOWN_MS == 250
IOT_ML_CRASH_COOLDOWN_MS == 2500

\* the brake and crash cooldowns of each firmware variant
FirmwareCooldowns ==
    {[variant |-> "IoT/Luma App",
      localBrake |-> LOCAL_BRAKE_COOLDOWN_MS, mlBrake |-> ML_BRAKE_COOLDOWN_MS,
      localCrash |-> LOCAL_CRASH_COOLDOWN_MS, mlCrash |-> ML_CRASH_COOLDOWN_MS],
     [variant |-> "IoT",
      localBrake |-> IOT_LOCAL_BRAKE_COOLDOWN_MS,
      mlBrake |-> IOT_ML_BRAKE_COOLDOWN_MS,
      localCrash |-> IOT_LOCAL_CRASH_COOLDOWN_MS,
      mlCrash |-> IOT_ML_CRASH_COOLDOWN_MS]}

N_FEATURES == 61
CLASS_BRAKE == 0
CLASS_BUMP == 1
CLASS_CRASH == 2
CLASS_NORMAL == 3
CLASS_TURN == 4

LED_OFF == "LED_OFF"
LED_BRAKE == "LED_BRAKE"
LED_CRASH == "LED_CRASH"
LED_TURN_LEFT == "LED_TURN_LEFT"
LED_TURN_RIGHT == "LED_TURN_RIGHT"
LED_PARTY == "LED_PARTY"
LED_CONNECTED_GREEN == "LED_CONNECTED_GREEN"
LED_ARMED_RED == "LED_ARMED_RED"
LED_IDLE == "LED_IDLE"

\* the legacy firmware (Luma/firmware): command bytes and HelmetState
CMD_TURN_LEFT_ON == 1
CMD_TURN_LEFT_OFF == 2
CMD_TURN_RIGHT_ON == 3
CMD_TURN_RIGHT_OFF == 4
CMD_CRASH_FALSE_ALARM == 5
CMD_PARTY_MODE == 6
CMD_NORMAL_MODE == 7

STATE_NORMAL == "STATE_NORMAL"
STATE_BRAKING == "STATE_BRAKING"
STATE_TURN_LEFT == "STATE_TURN_LEFT"
STATE_TURN_RIGHT == "STATE_TURN_RIGHT"
STATE_CRASH_ALERT == "STATE_CRASH_ALERT"
STATE_PARTY == "STATE_PARTY"
HelmetState ==
    {STATE_NORMAL, STATE_BRAKING, STATE_TURN_LEFT, STATE_TURN_RIGHT,
     STATE_CRASH_ALERT, STATE_PARTY}

LEDPattern ==
    {LED_OFF, LED_BRAKE, LED_CRASH, LED_TURN_LEFT, LED_TURN_RIGHT, LED_PARTY,
     LED_CONNECTED_GREEN, LED_ARMED_RED, LED_IDLE}

----------------------------------------------------------------------------
(* Arithmetic helpers *)

Abs(x) == IF x < 0 THEN -x ELSE x
Max2(a, b) == IF a > b THEN a ELSE b
Min2(a, b) == IF a < b THEN a ELSE b

\* unsigned long addition and subtraction
Add32(a, b) == (a + b) % ULONG_MOD
Sub32(a, b) == (a - b) % ULONG_MOD

RECURSIVE SqrtSearch(_, _, _)
SqrtSearch(x, lo, hi) ==
    IF lo >= hi THEN lo
    ELSE LET mid == (lo + hi + 1) \div 2
         IN  IF mid * mid <= x THEN SqrtSearch(x, mid, hi)
                               ELSE SqrtSearch(x, lo, mid - 1)

\* sqrt / sqrtf on a fixed-point square: the integer square root
ISqrt(x) == IF x <= 0 THEN 0 ELSE SqrtSearch(x, 0, 46340)

RECURSIVE SeqSum(_)
SeqSum(s) == IF s = << >> THEN 0 ELSE Head(s) + SeqSum(Tail(s))

RECURSIVE SeqMax(_)
SeqMax(s) == IF Len(s) = 1 THEN s[1] ELSE Max2(s[1], SeqMax(Tail(s)))

RECURSIVE SeqMin(_)
SeqMin(s) == IF Len(s) = 1 THEN s[1] ELSE Min2(s[1], SeqMin(Tail(s)))

constrain_NoUpperLimit(x, lo, hi) == IF x < lo THEN lo ELSE x

constrain(x, lo, hi) == IF x < lo THEN lo ELSE IF x > hi THEN hi ELSE x

----------------------------------------------------------------------------
(* Sensor: readMPU6500 *)

\* raw register readings the sensor can deliver: at rest (1.0 g), a
\* deceleration step (1.4 g), an impact with rotation (4.0 g, 260 deg/s)
RawRest == [ax |-> 0, ay |-> 0, az |-> 4096, gx |-> 0, gy |-> 0, gz |-> 0]
RawBrake == [ax |-> 0, ay |-> 0, az |-> 5735, gx |-> 0, gy |-> 0, gz |-> 0]
RawSpike == [ax |-> 0, ay |-> 0, az |-> 16384, gx |-> 17030, gy |-> 0, gz |-> 0]
SensorReadings == {RawRest, RawBrake, RawSpike}

\* IMUData of a zero-initialised global array element
ZeroSample ==
    [accel_x |-> 0, accel_y |-> 0, accel_z |-> 0,
     gyro_x |-> 0, gyro_y |-> 0, gyro_z |-> 0, accel_mag |-> 0, timestamp |-> 0]

\* raw / 4096.0f in 0.01 g, raw / 65.5f in 0.1 deg/s
readMPU6500(raw, t) ==
    LET x == (raw.ax * 100) \div 4096
        y == (raw.ay * 100) \div 4096
        z == (raw.az * 100) \div 4096
    IN  [accel_x |-> x, accel_y |-> y, accel_z |-> z,
         gyro_x |-> (raw.gx * 100) \div 655,
         gyro_y |-> (raw.gy * 100) \div 655,
         gyro_z |-> (raw.gz * 100) \div 655,
         accel_mag |-> ISqrt(x * x + y * y + z * z),
         timestamp |-> t]

----------------------------------------------------------------------------
(* Feature extraction: feature_extraction.h *)

calculateMean(data) == SeqSum(data) \div Len(data)

calculateStd(data, mean) ==
    ISqrt(SeqSum([i \in 1..Len(data) |-> (data[i] - mean) * (data[i] - mean)])
          \div Len(data))

\* (data[i] - mean) / std in 0.01
StdDiff(data, mean, std, i) == ((data[i] - mean) * 100) \div std

calculateSkewness(data, mean, std) ==
    IF std = 0 THEN 0
    ELSE SeqSum([i \in 1..Len(data) |->
                    LET d == StdDiff(data, mean, std, i)
                    IN  (((d * d) \div 100) * d) \div 10])
         \div Len(data)

calculateKurtosis(data, mean, std) ==
    IF std = 0 THEN 0
    ELSE (SeqSum([i \in 1..Len(data) |->
                    LET d  == StdDiff(data, mean, std, i)
                        d2 == (d * d) \div 100
                    IN  (d2 * d2) \div 10])
          \div Len(data)) - 3000

calculateZeroCrossingRate(data) ==
    LET mean == calculateMean(data)
        crossings ==
            Cardinality({i \in 2..Len(data) :
                           (data[i] - mean) * (data[i-1] - mean) < 0})
    IN  (crossings * 1000) \div (2 * Len(data))

AccelFeatures_NoMedian(data) ==
    LET mean == calculateMean(data)
        std  == calculateStd(data, mean)
        mx   == SeqMax(data)
        mn   == SeqMin(data)
    IN  << mean, std, mx, mn, mx - mn,
           calculateSkewness(data, mean, std),
           calculateKurtosis(data, mean, std) >>

\* mean, std, max, min, range, median approximation, skewness, kurtosis
AccelFeatures(data) ==
    LET mean == calculateMean(data)
        std  == calculateStd(data, mean)
        mx   == SeqMax(data)
        mn   == SeqMin(data)
    IN  << mean, std, mx, mn, mx - mn, mean,
           calculateSkewness(data, mean, std),
           calculateKurtosis(data, mean, std) >>

\* mean, std, max, min, range, abs_max
GyroFeatures(data) ==
    LET mean == calculateMean(data)
        mx   == SeqMax(data)
        mn   == SeqMin(data)
    IN  << mean, calculateStd(data, mean), mx, mn, mx - mn,
           Max2(Abs(mx), Abs(mn)) >>

PeakIndex_FromWriteIndex(data) ==
    CHOOSE p \in 0..(Len(data) - 1) :
        LET at(i) == data[((bufferIndex + i) % Len(data)) + 1]
        IN  /\ \A i \in 0..(Len(data) - 1) : at(i) <= at(p)
            /\ \A i \in 0..(p - 1) : at(i) < at(p)

\* index (from 0) of the first maximum, as the loop with > finds it
PeakIndex(data) ==
    CHOOSE p \in 0..(Len(data) - 1) :
        /\ \A i \in 0..(Len(data) - 1) : data[i+1] <= data[p+1]
        /\ \A i \in 0..(p - 1) : data[i+1] < data[p+1]

\* the buffer is read in array order, slot 0 first
extractFeatures(buffer, windowSize) ==
    LET accel_x   == [i \in 1..windowSize |-> buffer[i].accel_x]
        accel_y   == [i \in 1..windowSize |-> buffer[i].accel_y]
        accel_z   == [i \in 1..windowSize |-> buffer[i].accel_z]
        accel_mag == [i \in 1..windowSize |-> buffer[i].accel_mag]
        gyro_x    == [i \in 1..windowSize |-> buffer[i].gyro_x]
        gyro_y    == [i \in 1..windowSize |-> buffer[i].gyro_y]
        gyro_z    == [i \in 1..windowSize |-> buffer[i].gyro_z]
        gyro_mag  == [i \in 1..windowSize |->
                        ISqrt(gyro_x[i] * gyro_x[i] + gyro_y[i] * gyro_y[i]
                              + gyro_z[i] * gyro_z[i])]
        jerk      == [i \in 1..(windowSize - 1) |->
                        Abs(accel_mag[i+1] - accel_mag[i]) * 50]
        jerk_mean == calculateMean(jerk)
        written   ==
            AccelFeatures(accel_x) \o AccelFeatures(accel_y)
            \o AccelFeatures(accel_z) \o AccelFeatures(accel_mag)
            \o GyroFeatures(gyro_x) \o GyroFeatures(gyro_y)
            \o GyroFeatures(gyro_z)
            \o << calculateMean(gyro_mag), SeqMax(gyro_mag) >>
            \o << jerk_mean, SeqMax(jerk), calculateStd(jerk, jerk_mean) >>
            \o << SeqSum([i \in 1..windowSize |->
                            accel_mag[i] * accel_mag[i]]) \div windowSize,
                  SeqSum([i \in 1..windowSize |->
                            gyro_mag[i] * gyro_mag[i]]) \div windowSize >>
            \o << calculateZeroCrossingRate(gyro_x),
                  calculateZeroCrossingRate(gyro_y),
                  calculateZeroCrossingRate(gyro_z) >>
            \o << (PeakIndex(accel_mag) * 1000) \div windowSize >>
    IN  written \o [i \in 1..(N_FEATURES - Len(written)) |-> 0]

----------------------------------------------------------------------------
(* Threshold classifier: classifier.h.  f is indexed from 1: f[k+1] is the
   source's f[k]. *)

classifyEvent_BumpBeforeBrake(f) ==
    LET accel_z_std   == f[17 + 1]
        accel_mag_max == f[26 + 1]
        gyro_mag_max  == f[51 + 1]
        jerk_mean     == f[52 + 1]
        jerk_max      == f[53 + 1]
    IN  IF \/ (accel_mag_max > 320 /\ jerk_max > 5500 /\ gyro_mag_max > 2200)
           \/ (accel_mag_max > 360 /\ jerk_max > 4500 /\ gyro_mag_max > 1800)
        THEN CLASS_CRASH
        ELSE IF accel_mag_max > 220 /\ accel_mag_max < 320
                /\ jerk_max > 1800 /\ jerk_max < 7000
        THEN CLASS_BUMP
        ELSE IF /\ jerk_mean > 600 /\ jerk_mean < 3500
                /\ jerk_max > 1400 /\ jerk_max < 5500
                /\ gyro_mag_max < 1400 /\ accel_mag_max < 260
                /\ accel_z_std < 90
        THEN CLASS_BRAKE
        ELSE IF gyro_mag_max > 2000 /\ accel_mag_max < 220
        THEN CLASS_TURN
        ELSE CLASS_NORMAL

classifyEvent(f) ==
    LET accel_z_std   == f[17 + 1]
        accel_mag_max == f[26 + 1]
        gyro_mag_max  == f[51 + 1]
        jerk_mean     == f[52 + 1]
        jerk_max      == f[53 + 1]
        crashImpact   == accel_mag_max > 320
        crashJerk     == jerk_max > 5500
        crashGyro     == gyro_mag_max > 2200
        brakeJerkBand == jerk_mean > 600 /\ jerk_mean < 3500
        brakeJerkMax  == jerk_max > 1400 /\ jerk_max < 5500
        brakeLowGyro  == gyro_mag_max < 1400
        brakeLowImpact == accel_mag_max < 260
    IN  IF \/ (crashImpact /\ crashJerk /\ crashGyro)
           \/ (accel_mag_max > 360 /\ jerk_max > 4500 /\ gyro_mag_max > 1800)
        THEN CLASS_CRASH
        ELSE IF brakeJerkBand /\ brakeJerkMax /\ brakeLowGyro /\ brakeLowImpact
                /\ accel_z_std < 90
        THEN CLASS_BRAKE
        ELSE IF gyro_mag_max > 2000 /\ accel_mag_max < 220
        THEN CLASS_TURN
        ELSE IF accel_mag_max > 220 /\ accel_mag_max < 320
                /\ jerk_max > 1800 /\ jerk_max < 7000
        THEN CLASS_BUMP
        ELSE CLASS_NORMAL

getClassConfidence_NormalAsBump(f, c) ==
    LET am == f[26 + 1]
        jm == f[52 + 1]
        jx == f[53 + 1]
        gm == f[51 + 1]
    IN  CASE c = CLASS_CRASH ->
               LET s1 == ((am - 300) * 1000) \div 180
                   s2 == ((jx - 4500) * 1000) \div 6000
                   s3 == ((gm - 1800) * 1000) \div 2600
               IN  constrain(Max2(s1, Max2(s2, s3)), 200, 1000)
          [] c = CLASS_BRAKE ->
               LET s1 == ((jm - 600) * 1000) \div 3000
                   s2 == ((jx - 1400) * 1000) \div 4000
               IN  constrain((s1 + s2) \div 2, 200, 950)
          [] c = CLASS_TURN ->
               constrain(((gm - 2000) * 1000) \div 2500, 200, 900)
          [] OTHER ->
               constrain(((am - 200) * 1000) \div 150, 200, 850)

getClassConfidence(f, c) ==
    LET am == f[26 + 1]
        jm == f[52 + 1]
        jx == f[53 + 1]
        gm == f[51 + 1]
    IN  CASE c = CLASS_CRASH ->
               LET s1 == ((am - 300) * 1000) \div 180
                   s2 == ((jx - 4500) * 1000) \div 6000
                   s3 == ((gm - 1800) * 1000) \div 2600
               IN  constrain(Max2(s1, Max2(s2, s3)), 200, 1000)
          [] c = CLASS_BRAKE ->
               LET s1 == ((jm - 600) * 1000) \div 3000
                   s2 == ((jx - 1400) * 1000) \div 4000
               IN  constrain((s1 + s2) \div 2, 200, 950)
          [] c = CLASS_TURN ->
               constrain(((gm - 2000) * 1000) \div 2500, 200, 900)
          [] c = CLASS_BUMP ->
               constrain(((am - 200) * 1000) \div 150, 200, 850)
          [] OTHER -> 800

----------------------------------------------------------------------------
(* Local event reporting: confFromJerk, reportLocalBrake, reportLocalCrash *)

confFromJerk_Unclamped(jerk_gps, lo, hi) ==
    200 + (800 * (((jerk_gps - lo) * 1000) \div (hi - lo))) \div 1000

confFromJerk(jerk_gps, lo, hi) ==
    LET t == constrain(((jerk_gps - lo) * 1000) \div (hi - lo), 0, 1000)
    IN  200 + (800 * t) \div 1000

\* the event reported by reportLocalBrake
reportLocalBrake(jerk_gps) ==
    [cls |-> CLASS_BRAKE, conf |-> confFromJerk(jerk_gps, 1400, 3000)]

\* the event reported by reportLocalCrash
reportLocalCrash(jerk_gps, accel_mag) ==
    LET c1 == confFromJerk(jerk_gps, 4000, 9000)
        c2 == confFromJerk(accel_mag, 300, 500)
    IN  [cls |-> CLASS_CRASH, conf |-> IF c1 > c2 THEN c1 ELSE c2]

\* sendEventNotification without the early return on a link that is down
sendEventNotification_IgnoresLink(connected, ev) == << ev >>

\* sendEventNotification: the frames put on the link (none when not connected)
sendEventNotification(connected, ev) == IF connected THEN << ev >> ELSE << >>

----------------------------------------------------------------------------
(* Wire frames.  A float is copied into a frame as its four IEEE-754 single
   bytes, lowest first; the fixed-point integer that stands for the float is
   encoded as the single with that integer value (below 2^24 in size).  A
   decoded single is kept as sign, odd significand and binary exponent. *)

RECURSIVE Pow2(_)
Pow2(n) == IF n = 0 THEN 1 ELSE 2 * Pow2(n - 1)

\* floor(log2(x)) for x >= 1
RECURSIVE Log2(_)
Log2(x) == IF x < 2 THEN 0 ELSE 1 + Log2(x \div 2)

\* memcpy(&p[k], &f, 4) for a float f
Float32Bytes(x) ==
    IF x = 0 THEN << 0, 0, 0, 0 >>
    ELSE LET a    == Abs(x)
             e    == Log2(a)
             mant == a * Pow2(23 - e) - Pow2(23)
             expf == e + 127
             sign == IF x < 0 THEN 1 ELSE 0
         IN  << mant % 256, (mant \div 256) % 256,
                (expf % 2) * 128 + mant \div 65536,
                sign * 128 + expf \div 2 >>

\* memcpy(&p[k], &n, 4) for an unsigned long n
UInt32Bytes(n) ==
    << n % 256, (n \div 256) % 256, (n \div 65536) % 256,
       (n \div 16777216) % 256 >>

\* sign, odd significand and exponent of sig * 2^exp
RECURSIVE FloatCanon(_, _, _)
FloatCanon(sign, sig, exp) ==
    IF sig = 0 THEN [sign |-> sign, sig |-> 0, exp |-> 0]
    ELSE IF sig % 2 = 0 THEN FloatCanon(sign, sig \div 2, exp + 1)
    ELSE [sign |-> sign, sig |-> sig, exp |-> exp]

\* the float whose value is the integer x
FloatValue(x) == FloatCanon(IF x < 0 THEN 1 ELSE 0, Abs(x), 0)

\* four bytes, lowest first, read as an IEEE-754 single
Float32FromBytes(b) ==
    LET sign == b[4] \div 128
        expf == (b[4] % 128) * 2 + b[3] \div 128
        mant == (b[3] % 128) * 65536 + b[2] * 256 + b[1]
    IN  IF expf = 0 THEN FloatCanon(sign, mant, -149)
        ELSE FloatCanon(sign, Pow2(23) + mant, expf - 150)

\* sendIMUData: the 28 bytes p[0..27] put on the link, none when not connected
IMUFrame(connected, d) ==
    IF connected
    THEN Float32Bytes(d.accel_x) \o Float32Bytes(d.accel_y)
         \o Float32Bytes(d.accel_z) \o Float32Bytes(d.gyro_x)
         \o Float32Bytes(d.gyro_y) \o Float32Bytes(d.gyro_z)
         \o UInt32Bytes(d.timestamp)
    ELSE << >>

\* sendEventNotification: the 5 bytes p[0..4] of one event frame
EventFrame(ev) == << ev.cls % 256 >> \o Float32Bytes(ev.conf)

\* the frames of the events put on the link
EventFrames(notes) == [i \in DOMAIN notes |-> EventFrame(notes[i])]

sendIMUData_IgnoresLink(connected) == 1

\* sendIMUData: number of telemetry frames put on the link
sendIMUData(connected) == IF connected THEN 1 ELSE 0

\* sendIMUData(&d): the timestamp bytes p[24..27] of the frame, -1 for none
IMUFrameStamp(connected, d) == IF connected THEN d.timestamp ELSE -1

----------------------------------------------------------------------------
(* Groups of state variables *)


bufferVars == << imuBuffer, bufferIndex, bufferFull >>
cooldownVars ==
    << lastLocalBrakeMs, lastLocalCrashMs, lastMLBrakeMs, lastMLCrashMs,
       lastMLAttemptMs >>
ledVars ==
    << currentPattern, savedPattern, lastLEDUpdate, ledAnimationStep,
       brakeEndTime, connectGreenUntil >>
triggerVars == << lastAccelMag, lastMagLocal >>
captureVars == << loopNow, capI, capT0, capLedsAt >>
budgetVars == << nEvents, nJumps, nShort, nCallbacks, nBlinks >>
runVars == << crashRun, brakeRun, preBrake >>
legacyLoopVars ==
    << legacyPc, sensorData, currentTime, lastSensorRead, brakeStartTime,
       crashDetectedTime, cbPc, cbCommand >>
legacyVars == << currentState, previousState, legacyLoopVars >>
classifyVars == << features, clsOut, confOut >>

vars ==
    << pc, clock, mpuOk, legacyVars, classifyVars, errorLit, bleInit, deviceConnected, bufferVars,
       triggerVars, cooldownVars, ledVars, lastSampleTime, captureVars, op,
       nAppended, runVars, budgetVars >>

\* the LED state as one value
Led ==
    [currentPattern |-> currentPattern, savedPattern |-> savedPattern,
     lastLEDUpdate |-> lastLEDUpdate, ledAnimationStep |-> ledAnimationStep,
     brakeEndTime |-> brakeEndTime, connectGreenUntil |-> connectGreenUntil]

SetLed(L) ==
    /\ currentPattern' = L.currentPattern
    /\ savedPattern' = L.savedPattern
    /\ lastLEDUpdate' = L.lastLEDUpdate
    /\ ledAnimationStep' = L.ledAnimationStep
    /\ brakeEndTime' = L.brakeEndTime
    /\ connectGreenUntil' = L.connectGreenUntil

\* what a step records about itself
\* no LED state: the value of op.rec on the steps that reconcile nothing
NoLed ==
    [currentPattern |-> "-", savedPattern |-> "-", lastLEDUpdate |-> 0,
     ledAnimationStep |-> 0, brakeEndTime |-> 0, connectGreenUntil |-> 0]

OpRec(name) ==
    [name |-> name, t |-> clock, token |-> "-",
     rec |-> NoLed,       \* model path: the LED state the reconciliation left
     stamps |-> cooldownVars,   \* the last-fired timestamps before the step
     det |-> "none",      \* local path: none, crash, brake_fire, brake_extend
     cls |-> -1,          \* model path: the class returned, -1 if none ran
     act |-> "none",      \* model path: what the reconciliation did
     patAt |-> currentPattern,  \* pattern when the detection was handled
     endBefore |-> 0, endAfter |-> 0,   \* brakeEndTime around the handling
     crashCond |-> FALSE, brakeCond |-> FALSE,
     expired |-> "none",  \* updateLEDs: the timeout taken, brake or green
     coarse |-> FALSE,    \* loop(): the coarse trigger condition on the sample
     jerk |-> 0,          \* reportLocal*: the jerk_gps argument
     mag |-> 0,           \* reportLocalCrash: the accel_mag argument
     notes |-> << >>,     \* event frames sent
     tele |-> 0,          \* telemetry frames sent
     frame |-> -1,        \* timestamp in the telemetry frame sent
     wire |-> << >>,      \* bytes of the telemetry frame sent
     eventWire |-> << >>] \* bytes of the event frames sent

----------------------------------------------------------------------------
(* LED state machine *)

\* one animation frame of the current pattern, if its interval has elapsed
Animate(L, now) ==
    LET due(ms) == Sub32(now, L.lastLEDUpdate) > ms
        half == LED_COUNT \div 2
        step == L.ledAnimationStep
        adv(s) == [L EXCEPT !.lastLEDUpdate = now, !.ledAnimationStep = s]
        p == L.currentPattern
    IN  CASE p = LED_OFF -> L
          [] p = LED_ARMED_RED -> L
          [] p = LED_CONNECTED_GREEN -> IF due(30) THEN adv(step + 1) ELSE L
          [] p = LED_BRAKE ->
               IF due(40) THEN adv(IF step + 1 > half THEN 0 ELSE step + 1)
               ELSE L
          [] p = LED_CRASH ->
               IF due(100) THEN adv(IF step = 0 THEN 1 ELSE 0) ELSE L
          [] p \in {LED_TURN_LEFT, LED_TURN_RIGHT} ->
               IF due(70) THEN adv(IF step + 1 > half + 2 THEN 0 ELSE step + 1)
               ELSE L
          [] p = LED_PARTY -> IF due(20) THEN adv((step + 1) % 256) ELSE L
          [] OTHER -> IF due(50) THEN adv(step + 1) ELSE L

\* the interval of each animated pattern, the constant its case of the
\* switch in updateLEDs compares now - lastLEDUpdate with; 0 for the patterns
\* painted on every call
AnimationInterval(p) ==
    CASE p = LED_CONNECTED_GREEN -> 30
      [] p = LED_BRAKE -> 40
      [] p = LED_CRASH -> 100
      [] p \in {LED_TURN_LEFT, LED_TURN_RIGHT} -> 70
      [] p = LED_PARTY -> 20
      [] p = LED_IDLE -> 50
      [] OTHER -> 0

BrakeTimeout_AnyPattern(L, now) ==
    IF L.brakeEndTime # 0 /\ now > L.brakeEndTime
    THEN [L EXCEPT !.currentPattern = L.savedPattern, !.brakeEndTime = 0]
    ELSE L

BrakeTimeout(L, now) ==
    IF L.currentPattern = LED_BRAKE /\ L.brakeEndTime # 0
       /\ now > L.brakeEndTime
    THEN [L EXCEPT !.currentPattern = L.savedPattern, !.brakeEndTime = 0]
    ELSE L

\* updateLEDs: the test of the connect-indicator timeout, and its three writes
GreenDue(L, now) ==
    L.currentPattern = LED_CONNECTED_GREEN /\ now > L.connectGreenUntil

GreenTimeoutWrite(L) ==
    [L EXCEPT !.currentPattern = LED_ARMED_RED,
              !.ledAnimationStep = 0, !.lastLEDUpdate = 0]

GreenTimeout(L, now) ==
    IF GreenDue(L, now) THEN GreenTimeoutWrite(L) ELSE L

updateLEDs(L, now) == Animate(GreenTimeout(BrakeTimeout(L, now), now), now)

\* which of the two timeouts updateLEDs takes on L
Expired(L, now) ==
    IF BrakeTimeout(L, now) # L THEN "brake"
    ELSE IF GreenTimeout(L, now) # L THEN "green"
    ELSE "none"

fireBrakePattern(L, ms, now, connected) ==
    [L EXCEPT !.savedPattern = IF connected THEN LED_ARMED_RED ELSE LED_IDLE,
              !.currentPattern = LED_BRAKE,
              !.brakeEndTime = Add32(now, ms),
              !.ledAnimationStep = 0,
              !.lastLEDUpdate = 0]

fireCrashPattern(L, connected) ==
    [L EXCEPT !.savedPattern = IF connected THEN LED_ARMED_RED ELSE LED_IDLE,
              !.currentPattern = LED_CRASH,
              !.ledAnimationStep = 0,
              !.lastLEDUpdate = 0]

----------------------------------------------------------------------------
(* BLE callbacks *)

KnownTokens ==
    {"LEFT_ON", "RIGHT_ON", "TURN_OFF", "PARTY_ON", "PARTY_OFF",
     "CRASH_DISMISS"}

\* payloads the link can deliver: the known tokens, the empty payload, and
\* payloads that are no token
Payloads == KnownTokens \cup {"", "NORMAL", "left_on"}

\* CommandCallbacks::onWrite on the LED state
onWrite(L, value, connected) ==
    LET resting == IF connected THEN LED_ARMED_RED ELSE LED_IDLE
    IN  IF value = "" THEN L
        ELSE IF value = "LEFT_ON"
        THEN [L EXCEPT !.currentPattern = LED_TURN_LEFT, !.ledAnimationStep = 0]
        ELSE IF value = "RIGHT_ON"
        THEN [L EXCEPT !.currentPattern = LED_TURN_RIGHT, !.ledAnimationStep = 0]
        ELSE IF value = "TURN_OFF" THEN [L EXCEPT !.currentPattern = resting]
        ELSE IF value = "PARTY_ON"
        THEN [L EXCEPT !.currentPattern = LED_PARTY, !.ledAnimationStep = 0]
        ELSE IF value = "PARTY_OFF" THEN [L EXCEPT !.currentPattern = resting]
        ELSE IF value = "CRASH_DISMISS" THEN [L EXCEPT !.currentPattern = resting]
        ELSE L

\* ServerCallbacks::onConnect on the LED state
onConnect(L, now) ==
    [L EXCEPT !.currentPattern = LED_CONNECTED_GREEN,
              !.connectGreenUntil = Add32(now, 3000),
              !.ledAnimationStep = 0]

\* ServerCallbacks::onDisconnect on the LED state
onDisconnect(L) == [L EXCEPT !.currentPattern = LED_IDLE]

\* CommandCallbacks::onWrite of the IoT/esp32_firmware build on the LED state
onWriteIoT(L, value, connected) ==
    LET resting == IF connected THEN LED_ARMED_RED ELSE LED_IDLE
    IN  IF value = "" THEN L
        ELSE IF value = "LEFT_ON"
        THEN [L EXCEPT !.currentPattern = LED_TURN_LEFT, !.ledAnimationStep = 0,
                       !.lastLEDUpdate = 0]
        ELSE IF value = "RIGHT_ON"
        THEN [L EXCEPT !.currentPattern = LED_TURN_RIGHT, !.ledAnimationStep = 0,
                       !.lastLEDUpdate = 0]
        ELSE IF value = "TURN_OFF" THEN [L EXCEPT !.currentPattern = resting]
        ELSE IF value = "PARTY_ON"
        THEN [L EXCEPT !.currentPattern = LED_PARTY, !.ledAnimationStep = 0,
                       !.lastLEDUpdate = 0]
        ELSE IF value = "PARTY_OFF" THEN [L EXCEPT !.currentPattern = resting]
        ELSE IF value = "CRASH_DISMISS" THEN [L EXCEPT !.currentPattern = resting]
        ELSE L

\* the legacy firmware's one-byte commands: each known token is a payload of
\* exactly that byte
LegacyTokens ==
    {<< CMD_TURN_LEFT_ON >>, << CMD_TURN_LEFT_OFF >>, << CMD_TURN_RIGHT_ON >>,
     << CMD_TURN_RIGHT_OFF >>, << CMD_CRASH_FALSE_ALARM >>, << CMD_PARTY_MODE >>,
     << CMD_NORMAL_MODE >>}

\* payloads the link can deliver to the legacy firmware: empty, one byte
\* (0x00, a command, 0x08, 0xFF), and two bytes
LegacyBytes == {0, 8, 255} \cup (CMD_TURN_LEFT_ON .. CMD_NORMAL_MODE)
LegacyPayloads ==
    {<< >>} \cup {<< b >> : b \in LegacyBytes}
            \cup {<< b, 0 >> : b \in {0, CMD_TURN_LEFT_ON, CMD_PARTY_MODE}}

\* the legacy CommandCallbacks::onWrite on [currentState, previousState]:
\* uint8_t command = value[0]; switch (command), with no default
onWriteLegacy(S, value) ==
    IF Len(value) = 0 THEN S
    ELSE LET command == value[1]
         IN  IF command = CMD_TURN_LEFT_ON
             THEN IF S.currentState # STATE_CRASH_ALERT
                  THEN [currentState |-> STATE_TURN_LEFT,
                        previousState |-> S.currentState]
                  ELSE S
             ELSE IF command = CMD_TURN_LEFT_OFF
             THEN IF S.currentState = STATE_TURN_LEFT
                  THEN [S EXCEPT !.currentState = STATE_NORMAL] ELSE S
             ELSE IF command = CMD_TURN_RIGHT_ON
             THEN IF S.currentState # STATE_CRASH_ALERT
                  THEN [currentState |-> STATE_TURN_RIGHT,
                        previousState |-> S.currentState]
                  ELSE S
             ELSE IF command = CMD_TURN_RIGHT_OFF
             THEN IF S.currentState = STATE_TURN_RIGHT
                  THEN [S EXCEPT !.currentState = STATE_NORMAL] ELSE S
             ELSE IF command = CMD_CRASH_FALSE_ALARM
             THEN IF S.currentState = STATE_CRASH_ALERT
                  THEN [S EXCEPT !.currentState = STATE_NORMAL] ELSE S
             ELSE IF command = CMD_PARTY_MODE
             THEN IF S.currentState # STATE_CRASH_ALERT
                  THEN [S EXCEPT !.currentState = STATE_PARTY] ELSE S
             ELSE IF command = CMD_NORMAL_MODE
             THEN IF S.currentState # STATE_CRASH_ALERT
                  THEN [S EXCEPT !.currentState = STATE_NORMAL] ELSE S
             ELSE S

\* the cases of the switch in the legacy onWrite, as the test each makes on
\* currentState and the assignments it then makes
CommandGuard(cmd, state) ==
    CASE cmd \in {CMD_TURN_LEFT_ON, CMD_TURN_RIGHT_ON, CMD_PARTY_MODE,
                  CMD_NORMAL_MODE} -> state # STATE_CRASH_ALERT
      [] cmd = CMD_TURN_LEFT_OFF -> state = STATE_TURN_LEFT
      [] cmd = CMD_TURN_RIGHT_OFF -> state = STATE_TURN_RIGHT
      [] cmd = CMD_CRASH_FALSE_ALARM -> state = STATE_CRASH_ALERT
      [] OTHER -> FALSE

CommandWrite(S, cmd) ==
    CASE cmd = CMD_TURN_LEFT_ON ->
            [currentState |-> STATE_TURN_LEFT, previousState |-> S.currentState]
      [] cmd = CMD_TURN_RIGHT_ON ->
            [currentState |-> STATE_TURN_RIGHT, previousState |-> S.currentState]
      [] cmd = CMD_PARTY_MODE -> [S EXCEPT !.currentState = STATE_PARTY]
      [] cmd \in {CMD_TURN_LEFT_OFF, CMD_TURN_RIGHT_OFF, CMD_CRASH_FALSE_ALARM,
                  CMD_NORMAL_MODE} -> [S EXCEPT !.currentState = STATE_NORMAL]
      [] OTHER -> S

\* the legacy firmware's loop() and callback between calls, its globals as
\* their initialisers leave them
NoSensorData == [isBraking |-> FALSE, isCrash |-> FALSE]

LegacyIdle ==
    /\ legacyPc = "top"
    /\ sensorData = NoSensorData
    /\ currentTime = 0
    /\ lastSensorRead = 0
    /\ brakeStartTime = 0
    /\ crashDetectedTime = 0
    /\ cbPc = "idle"
    /\ cbCommand = 0

----------------------------------------------------------------------------
(* Ring buffer *)

\* imuBuffer[bufferIndex] = d; bufferIndex = (bufferIndex + 1) % W;
\* if (bufferIndex == 0) bufferFull = true
BufferPush(buf, idx, full, d) ==
    LET next == (idx + 1) % EVENT_WINDOW_SIZE
    IN  [buf |-> [buf EXCEPT ![idx + 1] = d], idx |-> next,
         full |-> (full \/ next = 0)]

----------------------------------------------------------------------------
(* Local fallback detector and model path *)

\* the comparison without the cooldown: a channel that is never blocked
CooldownElapsed_NoCooldown(now, last, cooldown) == Sub32(now, last) >= 0

CooldownElapsed(now, last, cooldown) == Sub32(now, last) >= cooldown

\* fabsf(accel_mag - previous) * IMU_SAMPLE_RATE
JerkOf(accel_mag, previous) == Abs(accel_mag - previous) * IMU_SAMPLE_RATE

LocalCrashCond(accel_mag, jerk) == accel_mag > 300 \/ jerk > 4000
LocalBrakeCond(accel_mag, jerk) == jerk > 1400 /\ accel_mag < 220

\* the local path of loop() on sample d read at now
LocalFallback(L, d, now, prevMag, lastBrake, lastCrash, connected) ==
    LET jerkLocal == JerkOf(d.accel_mag, prevMag)
    IN  IF /\ L.currentPattern # LED_CRASH
           /\ CooldownElapsed(now, lastCrash, LOCAL_CRASH_COOLDOWN_MS)
           /\ LocalCrashCond(d.accel_mag, jerkLocal)
        THEN [led |-> fireCrashPattern(L, connected),
              lastBrake |-> lastBrake, lastCrash |-> now, det |-> "crash",
              notes |-> sendEventNotification(connected,
                            reportLocalCrash(jerkLocal, d.accel_mag))]
        ELSE IF /\ CooldownElapsed(now, lastBrake, LOCAL_BRAKE_COOLDOWN_MS)
                /\ LocalBrakeCond(d.accel_mag, jerkLocal)
        THEN IF L.currentPattern = LED_BRAKE
             THEN [led |-> [L EXCEPT !.brakeEndTime = Add32(now, 800)],
                   lastBrake |-> now, lastCrash |-> lastCrash,
                   det |-> "brake_extend", notes |-> << >>]
             ELSE [led |-> fireBrakePattern(L, 800, now, connected),
                   lastBrake |-> now, lastCrash |-> lastCrash,
                   det |-> "brake_fire",
                   notes |-> sendEventNotification(connected,
                                 reportLocalBrake(jerkLocal))]
        ELSE [led |-> L, lastBrake |-> lastBrake, lastCrash |-> lastCrash,
              det |-> "none", notes |-> << >>]

\* detectEventTrigger's result (it also stores cur->accel_mag in lastAccelMag)
detectEventTrigger(accel_mag, previous) ==
    accel_mag > 160 \/ JerkOf(accel_mag, previous) > 600

\* the attempts held back by the model crash cooldown
ModelPathDue_CrashCooldown(full, now, lastAttempt) ==
    full /\ CooldownElapsed(now, lastAttempt, ML_CRASH_COOLDOWN_MS)

\* the guard without the bufferFull test
ModelPathDue_NoFullGate(full, now, lastAttempt) ==
    CooldownElapsed(now, lastAttempt, ML_ATTEMPT_COOLDOWN_MS)

\* the guard of the model path in loop()
ModelPathDue(full, now, lastAttempt) ==
    full /\ CooldownElapsed(now, lastAttempt, ML_ATTEMPT_COOLDOWN_MS)

\* the reconciliation of classifyAndRespondToEvent(nowMs) on the class and
\* confidence it computed, called when millis() is now
\* the Crash gate without the test of the pattern showing
ModelCrashFires_IgnoresPattern(L, nowMs, lastCrash) ==
    CooldownElapsed(nowMs, lastCrash, ML_CRASH_COOLDOWN_MS)

\* nowMs - lastMLCrashMs >= ML_CRASH_COOLDOWN_MS && currentPattern != LED_CRASH
ModelCrashFires(L, nowMs, lastCrash) ==
    /\ CooldownElapsed(nowMs, lastCrash, ML_CRASH_COOLDOWN_MS)
    /\ L.currentPattern # LED_CRASH

Reconcile(L, cls, conf, nowMs, now, lastBrake, lastCrash, connected) ==
    LET ev   == [cls |-> cls, conf |-> conf]
        same == [led |-> L, lastBrake |-> lastBrake, lastCrash |-> lastCrash,
                 cls |-> cls, act |-> "none", notes |-> << >>]
    IN  IF cls = CLASS_BRAKE
        THEN IF CooldownElapsed(nowMs, lastBrake, ML_BRAKE_COOLDOWN_MS)
             THEN [same EXCEPT !.lastBrake = nowMs,
                               !.led = fireBrakePattern(L, 900, now, connected),
                               !.act = "brake_fire",
                               !.notes = sendEventNotification(connected, ev)]
             ELSE IF L.currentPattern = LED_BRAKE
             THEN [same EXCEPT !.led = [L EXCEPT !.brakeEndTime =
                                                    Add32(nowMs, 900)],
                               !.act = "brake_extend"]
             ELSE same
        ELSE IF cls = CLASS_CRASH
        THEN IF ModelCrashFires(L, nowMs, lastCrash)
             THEN [same EXCEPT !.lastCrash = nowMs,
                               !.led = fireCrashPattern(L, connected),
                               !.act = "crash_fire",
                               !.notes = sendEventNotification(connected, ev)]
             ELSE same
        ELSE [same EXCEPT !.act = "report",
                          !.notes = sendEventNotification(connected, ev)]

\* int cls = classifyEvent(features); float conf = getClassConfidence(...)
ClassifyFeatures(f) ==
    LET cls == classifyEvent(f)
    IN  [cls |-> cls, conf |-> getClassConfidence(f, cls)]

\* classifyAndRespondToEvent(nowMs), called when millis() is now
classifyAndRespondToEvent(L, buf, nowMs, now, lastBrake, lastCrash, connected) ==
    LET c == ClassifyFeatures(extractFeatures(buf, EVENT_WINDOW_SIZE))
    IN  Reconcile(L, c.cls, c.conf, nowMs, now, lastBrake, lastCrash, connected)

----------------------------------------------------------------------------
(* History of detection runs, kept for the properties; the program does not
   read it *)

\* preBrake: the pattern that was showing when the Brake now showing was
\* requested; a Brake fired while Brake shows keeps the earlier one
PreBrakeAfter(pre, pattern, fired) ==
    IF fired /\ pattern # LED_BRAKE THEN pattern ELSE pre

CrashNotes(notes) ==
    Cardinality({i \in 1..Len(notes) : notes[i].cls = CLASS_CRASH})

BrakeNotes(notes) ==
    Cardinality({i \in 1..Len(notes) : notes[i].cls = CLASS_BRAKE})

\* crashRun: n is the number of Crash notifications sent since the local crash
\* channel fired at t0, while the link stayed connected and every tick met
\* the local crash condition within LOCAL_CRASH_COOLDOWN_MS of t0; n = -1
\* when no such run is going on
NoRun == [n |-> -1, t0 |-> 0]

CrashRunAfterSample(run, connected, det, cond, now, notes) ==
    IF ~connected THEN NoRun
    ELSE IF run.n # -1 /\ cond /\ Sub32(now, run.t0) < LOCAL_CRASH_COOLDOWN_MS
    THEN [run EXCEPT !.n = run.n + CrashNotes(notes)]
    ELSE IF det = "crash" THEN [n |-> CrashNotes(notes), t0 |-> now]
    ELSE NoRun

\* the model pass belongs to the tick that triggered it
CrashRunAfterClassify(run, notes) ==
    IF run.n = -1 THEN run ELSE [run EXCEPT !.n = run.n + CrashNotes(notes)]

\* brakeRun: st tells how the current run of consecutive ticks with the brake
\* jerk (and no crash condition) went while the link stayed connected:
\*   "none"     no such run
\*   "outside"  the pattern was Brake or Crash on the run's first tick
\*   "unready"  the local brake cooldown had not elapsed on the first tick
\*   "silent"   the first tick sent no local Brake notification
\*   "fired"    the first tick sent one, and any later one came at least
\*              LOCAL_BRAKE_COOLDOWN_MS after the one before it
\*   "early"    a later one came sooner than that
\* at is the time of the run's last local Brake notification
NoBrakeRun == [st |-> "none", at |-> 0]

BrakeRunAfterSample(run, connected, pattern, lastBrake, cond, now, notes) ==
    IF ~connected \/ ~cond THEN NoBrakeRun
    ELSE IF run.st = "none"
    THEN IF pattern \in {LED_BRAKE, LED_CRASH} THEN [st |-> "outside", at |-> 0]
         ELSE IF ~CooldownElapsed(now, lastBrake, LOCAL_BRAKE_COOLDOWN_MS)
         THEN [st |-> "unready", at |-> 0]
         ELSE IF BrakeNotes(notes) = 1 THEN [st |-> "fired", at |-> now]
         ELSE [st |-> "silent", at |-> 0]
    ELSE IF run.st \in {"fired", "early"} /\ BrakeNotes(notes) > 0
    THEN [st |-> IF run.st = "early"
                    \/ Sub32(now, run.at) < LOCAL_BRAKE_COOLDOWN_MS
                 THEN "early" ELSE "fired",
          at |-> now]
    ELSE run

----------------------------------------------------------------------------
(* Boot: setup() and initMPU6500() *)

\* WHO_AM_I values the bus can answer with: 0x70, 0x71, 0x68, 0x00, 0xFF
WhoAmIValues == {112, 113, 104, 0, 255}

\* initMPU6500's result
initMPU6500(whoami) == ~(whoami # 112 /\ whoami # 113)

\* setup() that goes on to initBLE() whatever initMPU6500 returned
SetupNext_NoErrorLoop(ok) == "loop"

\* where setup() goes after initMPU6500 returned ok
SetupNext(ok) == IF ok THEN "loop" ELSE "error"

\* the locals of classifyAndRespondToEvent outside a call
ZeroFeatures == [i \in 1..N_FEATURES |-> 0]

NotClassifying ==
    /\ features = ZeroFeatures
    /\ clsOut = -1
    /\ confOut = 0

\* the globals as their initialisers leave them
InitGlobals ==
    /\ pc = "setup"
    /\ clock = 0
    /\ mpuOk = FALSE
    /\ currentState = STATE_NORMAL
    /\ previousState = STATE_NORMAL
    /\ LegacyIdle
    /\ errorLit = FALSE
    /\ bleInit = FALSE
    /\ deviceConnected = FALSE
    /\ imuBuffer = [i \in 1..EVENT_WINDOW_SIZE |-> ZeroSample]
    /\ bufferIndex = 0
    /\ bufferFull = FALSE
    /\ lastAccelMag = 100
    /\ lastMagLocal = 100
    /\ lastLocalBrakeMs = 0
    /\ lastLocalCrashMs = 0
    /\ lastMLBrakeMs = 0
    /\ lastMLCrashMs = 0
    /\ lastMLAttemptMs = 0
    /\ currentPattern = LED_IDLE
    /\ savedPattern = LED_IDLE
    /\ lastLEDUpdate = 0
    /\ ledAnimationStep = 0
    /\ brakeEndTime = 0
    /\ connectGreenUntil = 0
    /\ lastSampleTime = 0
    /\ loopNow = 0
    /\ capI = 0
    /\ capT0 = 0
    /\ capLedsAt = -1
    /\ op = OpRec("init")
    /\ nAppended = 0
    /\ crashRun = NoRun
    /\ brakeRun = NoBrakeRun
    /\ preBrake = LED_IDLE
    /\ nEvents = 0
    /\ nJumps = 0
    /\ nShort = 0
    /\ nCallbacks = 0
    /\ nBlinks = 0

Init ==
    /\ InitGlobals
    /\ NotClassifying

\* setup(): delay(200), initLEDs, initMPU6500 (delay(100) when identified),
\* then initBLE, or the error indicator
Setup(whoami) ==
    /\ pc = "setup"
    /\ LET ok == initMPU6500(whoami)
       IN  /\ mpuOk' = ok
           /\ pc' = SetupNext(ok)
           /\ bleInit' = (pc' = "loop")
           /\ clock' = Add32(clock, IF ok THEN 300 ELSE 200)
    /\ op' = OpRec("setup")
    /\ UNCHANGED << legacyVars, classifyVars, errorLit, deviceConnected, bufferVars, triggerVars,
                    cooldownVars, ledVars, lastSampleTime, captureVars,
                    nAppended, runVars, budgetVars >>

\* one half period of the while (1) error indicator
ErrorBlink ==
    /\ pc = "error"
    /\ nBlinks < MaxBlinks
    /\ errorLit' = ~errorLit
    /\ clock' = Add32(clock, 300)
    /\ nBlinks' = nBlinks + 1
    /\ op' = OpRec("errorBlink")
    /\ UNCHANGED << pc, mpuOk, legacyVars, classifyVars, bleInit, deviceConnected, bufferVars,
                    triggerVars, cooldownVars, ledVars, lastSampleTime,
                    captureVars, nAppended, runVars, nEvents, nJumps, nShort,
                    nCallbacks >>

----------------------------------------------------------------------------
(* Time: delay(1) returns after one loop period: half a sample interval, a
   sample interval, or, when the loop task is held up, much later *)

DelayChoices ==
    {SAMPLE_INTERVAL_MS}
    \cup (IF nShort < MaxShort THEN {SAMPLE_INTERVAL_MS \div 2} ELSE {})
    \cup (IF nJumps < MaxJumps THEN {LOCAL_CRASH_COOLDOWN_MS} ELSE {})

Delay(dt) ==
    /\ clock' = Add32(clock, dt)
    /\ nShort' = IF dt < SAMPLE_INTERVAL_MS THEN nShort + 1 ELSE nShort
    /\ nJumps' = IF dt > SAMPLE_INTERVAL_MS THEN nJumps + 1 ELSE nJumps

NoDelay == UNCHANGED << clock, nShort, nJumps >>

\* a waiting turn ends when the sample started at last falls due, or later
WaitChoices(last) ==
    {SAMPLE_INTERVAL_MS - Sub32(clock, last)}
    \cup (IF nJumps < MaxJumps THEN {LOCAL_CRASH_COOLDOWN_MS} ELSE {})

Wait(dt) ==
    /\ clock' = Add32(clock, dt)
    /\ nJumps' = IF dt > SAMPLE_INTERVAL_MS THEN nJumps + 1 ELSE nJumps
    /\ UNCHANGED nShort

\* the sensor delivers reading raw
Sensor(raw) ==
    /\ nAppended < MaxSamples
    /\ nAppended + nCallbacks < MaxInputs
    /\ raw # RawRest => nEvents < MaxEvents
    /\ nAppended' = nAppended + 1
    /\ nEvents' = IF raw # RawRest THEN nEvents + 1 ELSE nEvents

\* the wait for the sample interval left out: a sample is read on every turn
SampleDue_NoWait(now, last) == Sub32(now, last) >= 0

\* now - lastSampleTime >= SAMPLE_INTERVAL_MS, and the negation of
\* millis() - t0 < SAMPLE_INTERVAL_MS
SampleDue(now, last) == Sub32(now, last) >= SAMPLE_INTERVAL_MS

----------------------------------------------------------------------------
(* Main loop *)

\* loop() when no sample is due: updateLEDs(); delay(1)
LoopIdle(dt) ==
    /\ pc = "loop"
    /\ ~SampleDue(clock, lastSampleTime)
    /\ ~GreenDue(Led, clock)
    /\ SetLed(updateLEDs(Led, clock))
    /\ Wait(dt)
    /\ op' = [OpRec("loopIdle") EXCEPT !.expired = Expired(Led, clock)]
    /\ UNCHANGED << pc, mpuOk, legacyVars, classifyVars, errorLit, bleInit, deviceConnected,
                    bufferVars, triggerVars, cooldownVars, lastSampleTime,
                    captureVars, nAppended, runVars, nEvents, nCallbacks,
                    nBlinks >>

\* loop() when a sample is due: read, append, telemetry, local path, model
\* path up to the start of the extra capture; else updateLEDs(); delay(1)
LoopSample(raw, dt) ==
    /\ pc = "loop"
    /\ SampleDue(clock, lastSampleTime)
    /\ Sensor(raw)
    /\ \E now \in {clock}, d \in {readMPU6500(raw, clock)} :
       \E b \in {BufferPush(imuBuffer, bufferIndex, bufferFull, d)},
          loc \in {LocalFallback(Led, d, now, lastMagLocal, lastLocalBrakeMs,
                                 lastLocalCrashMs, deviceConnected)},
          jerkLocal \in {JerkOf(d.accel_mag, lastMagLocal)} :
       LET due  == ModelPathDue(b.full, now, lastMLAttemptMs)
           trig == due /\ detectEventTrigger(d.accel_mag, lastAccelMag)
       IN  /\ lastSampleTime' = now
           /\ imuBuffer' = b.buf
           /\ bufferIndex' = b.idx
           /\ bufferFull' = b.full
           /\ lastMagLocal' = d.accel_mag
           /\ lastLocalBrakeMs' = loc.lastBrake
           /\ lastLocalCrashMs' = loc.lastCrash
           /\ lastAccelMag' = IF due THEN d.accel_mag ELSE lastAccelMag
           /\ crashRun' = CrashRunAfterSample(crashRun, deviceConnected,
                              loc.det, LocalCrashCond(d.accel_mag, jerkLocal),
                              now, loc.notes)
           /\ brakeRun' = BrakeRunAfterSample(brakeRun, deviceConnected,
                              currentPattern, lastLocalBrakeMs,
                              LocalBrakeCond(d.accel_mag, jerkLocal)
                                /\ ~LocalCrashCond(d.accel_mag, jerkLocal),
                              now, loc.notes)
           /\ op' = [OpRec("loopSample") EXCEPT
                        !.det = loc.det, !.notes = loc.notes,
                        !.eventWire = EventFrames(loc.notes),
                        !.tele = sendIMUData(deviceConnected),
                        !.frame = IMUFrameStamp(deviceConnected, d),
                        !.wire = IMUFrame(deviceConnected, d),
                        !.endBefore = brakeEndTime,
                        !.endAfter = loc.led.brakeEndTime,
                        !.crashCond = LocalCrashCond(d.accel_mag, jerkLocal),
                        !.brakeCond = LocalBrakeCond(d.accel_mag, jerkLocal),
                        !.coarse = detectEventTrigger(d.accel_mag, lastAccelMag),
                        !.expired = IF trig THEN "none"
                                    ELSE Expired(loc.led, clock)]
           /\ preBrake' = PreBrakeAfter(preBrake, currentPattern,
                                        loc.det = "brake_fire")
           /\ IF trig
              THEN /\ lastMLAttemptMs' = now
                   /\ loopNow' = now
                   /\ capI' = 0
                   /\ capT0' = clock
                   /\ capLedsAt' = -1
                   /\ pc' = "capture"
                   /\ SetLed(loc.led)
                   /\ NoDelay
              ELSE /\ SetLed(updateLEDs(loc.led, clock))
                   /\ Delay(dt)
                   /\ UNCHANGED << pc, lastMLAttemptMs, captureVars >>
    /\ UNCHANGED << mpuOk, legacyVars, classifyVars, errorLit, bleInit, deviceConnected, lastMLBrakeMs,
                    lastMLCrashMs, nCallbacks, nBlinks >>

\* capturePostSamples: one turn of while (millis() - t0 < SAMPLE_INTERVAL_MS)
CaptureWait(dt) ==
    /\ pc = "capture"
    /\ ~SampleDue(clock, capT0)
    /\ ~GreenDue(Led, clock)
    /\ SetLed(updateLEDs(Led, clock))
    /\ Wait(dt)
    /\ op' = [OpRec("captureWait") EXCEPT !.expired = Expired(Led, clock)]
    /\ capLedsAt' = clock
    /\ UNCHANGED << pc, mpuOk, legacyVars, classifyVars, errorLit, bleInit, deviceConnected,
                    bufferVars, triggerVars, cooldownVars, lastSampleTime,
                    loopNow, capI, capT0, nAppended, runVars, nEvents,
                    nCallbacks, nBlinks >>

\* The BLE callbacks run on the BLE host task while loop() runs on the
\* Arduino task, and the LED variables they share are plain globals.  A turn
\* of loop() or of the capture wait that finds the connect indicator timed
\* out is therefore taken in two steps, the test and the writes, and a
\* callback may run between them.
UpdateLEDsGreenTest ==
    /\ \/ pc = "loop" /\ ~SampleDue(clock, lastSampleTime)
       \/ pc = "capture" /\ ~SampleDue(clock, capT0)
    /\ GreenDue(Led, clock)
    /\ pc' = IF pc = "loop" THEN "loopGreen" ELSE "captureGreen"
    /\ op' = OpRec("greenTest")
    /\ UNCHANGED << clock, mpuOk, legacyVars, classifyVars, errorLit, bleInit,
                    deviceConnected, bufferVars, triggerVars, cooldownVars,
                    ledVars, lastSampleTime, captureVars, nAppended,
                    runVars, budgetVars >>

UpdateLEDsGreenWrite(dt) ==
    /\ pc \in {"loopGreen", "captureGreen"}
    /\ SetLed(Animate(GreenTimeoutWrite(Led), clock))
    /\ Wait(dt)
    /\ pc' = IF pc = "loopGreen" THEN "loop" ELSE "capture"
    /\ op' = [OpRec(IF pc = "loopGreen" THEN "loopIdle" ELSE "captureWait")
                 EXCEPT !.expired = "green"]
    /\ capLedsAt' = IF pc = "captureGreen" THEN clock ELSE capLedsAt
    /\ UNCHANGED << mpuOk, legacyVars, classifyVars, errorLit, bleInit, deviceConnected,
                    bufferVars, triggerVars, cooldownVars, lastSampleTime,
                    loopNow, capI, capT0, nAppended, runVars, nEvents,
                    nCallbacks, nBlinks >>

\* capturePostSamples: read, append and send one sample; after the last one,
\* classifyAndRespondToEvent(now) and the tail of loop()
CaptureSample(raw, dt) ==
    /\ pc = "capture"
    /\ SampleDue(clock, capT0)
    /\ Sensor(raw)
    /\ \E d \in {readMPU6500(raw, clock)} :
       \E b \in {BufferPush(imuBuffer, bufferIndex, bufferFull, d)} :
           /\ imuBuffer' = b.buf
           /\ bufferIndex' = b.idx
           /\ bufferFull' = b.full
           /\ IF capI + 1 < POST_SAMPLES
              THEN /\ capI' = capI + 1
                   /\ capT0' = clock
                   /\ capLedsAt' = -1
                   /\ op' = [OpRec("captureSample") EXCEPT
                                !.tele = sendIMUData(deviceConnected),
                                !.frame = IMUFrameStamp(deviceConnected, d),
                                !.wire = IMUFrame(deviceConnected, d)]
                   /\ NoDelay
                   /\ UNCHANGED << pc, loopNow, ledVars, lastMLBrakeMs,
                                   lastMLCrashMs, crashRun, preBrake >>
              ELSE \E r \in {classifyAndRespondToEvent(Led, b.buf, loopNow,
                              clock, lastMLBrakeMs, lastMLCrashMs,
                              deviceConnected)} :
                   /\ pc' = "loop"
                   /\ lastMLBrakeMs' = r.lastBrake
                   /\ lastMLCrashMs' = r.lastCrash
                   /\ SetLed(updateLEDs(r.led, clock))
                   /\ Delay(dt)
                   /\ op' = [OpRec("classify") EXCEPT
                                !.cls = r.cls, !.act = r.act,
                                !.rec = r.led,
                                !.notes = r.notes,
                                !.eventWire = EventFrames(r.notes),
                                !.tele = sendIMUData(deviceConnected),
                                !.frame = IMUFrameStamp(deviceConnected, d),
                                !.wire = IMUFrame(deviceConnected, d),
                                !.endBefore = brakeEndTime,
                                !.endAfter = r.led.brakeEndTime,
                                !.expired = Expired(r.led, clock)]
                   /\ crashRun' = CrashRunAfterClassify(crashRun, r.notes)
                   /\ preBrake' = PreBrakeAfter(preBrake, currentPattern,
                                                r.act = "brake_fire")
                   /\ UNCHANGED captureVars
    /\ UNCHANGED << mpuOk, legacyVars, classifyVars, errorLit, bleInit, deviceConnected, triggerVars,
                    lastLocalBrakeMs, lastLocalCrashMs, lastMLAttemptMs,
                    lastSampleTime, brakeRun, nCallbacks, nBlinks >>

----------------------------------------------------------------------------
(* BLE callbacks, run by the link's task between any two steps of the loop *)

CallbackFrame ==
    /\ bleInit
    /\ nCallbacks < MaxCallbacks
    /\ nAppended + nCallbacks < MaxInputs
    /\ nCallbacks' = nCallbacks + 1
    /\ UNCHANGED << pc, clock, mpuOk, errorLit, bleInit, bufferVars,
                    triggerVars, cooldownVars, lastSampleTime, captureVars,
                    nAppended, nEvents, nJumps, nShort, nBlinks >>

OnConnect ==
    /\ CallbackFrame
    /\ ~deviceConnected
    /\ deviceConnected' = TRUE
    /\ SetLed(onConnect(Led, clock))
    /\ op' = OpRec("onConnect")
    /\ UNCHANGED << runVars, legacyVars, classifyVars >>

OnDisconnect ==
    /\ CallbackFrame
    /\ deviceConnected
    /\ deviceConnected' = FALSE
    /\ SetLed(onDisconnect(Led))
    /\ op' = OpRec("onDisconnect")
    /\ crashRun' = NoRun
    /\ brakeRun' = NoBrakeRun
    /\ UNCHANGED << preBrake, legacyVars, classifyVars >>

OnWrite(value) ==
    /\ CallbackFrame
    /\ deviceConnected
    /\ SetLed(onWrite(Led, value, deviceConnected))
    /\ op' = [OpRec("onWrite") EXCEPT !.token = value]
    /\ UNCHANGED << deviceConnected, runVars, legacyVars, classifyVars >>

----------------------------------------------------------------------------

Next ==
    \/ \E whoami \in WhoAmIValues : Setup(whoami)
    \/ ErrorBlink
    \/ \E dt \in WaitChoices(lastSampleTime) : LoopIdle(dt)
    \/ \E raw \in SensorReadings, dt \in DelayChoices : LoopSample(raw, dt)
    \/ \E dt \in WaitChoices(capT0) : CaptureWait(dt)
    \/ \E raw \in SensorReadings, dt \in DelayChoices : CaptureSample(raw, dt)
    \/ UpdateLEDsGreenTest
    \/ \E dt \in WaitChoices(IF pc = "loopGreen" THEN lastSampleTime ELSE capT0) :
          UpdateLEDsGreenWrite(dt)
    \/ OnConnect
    \/ OnDisconnect
    \/ \E value \in Payloads : OnWrite(value)

Spec == Init /\ [][Next]_vars

\* The Arduino core runs setup() once and then calls loop() for ever on its
\* own task: whenever the main task has a step to take, it takes one.  The
\* steps of the main task other than reading a sample in capturePostSamples:
MainTask ==
    \/ \E whoami \in WhoAmIValues : Setup(whoami)
    \/ ErrorBlink
    \/ \E dt \in WaitChoices(lastSampleTime) : LoopIdle(dt)
    \/ \E raw \in SensorReadings, dt \in DelayChoices : LoopSample(raw, dt)
    \/ \E dt \in WaitChoices(capT0) : CaptureWait(dt)
    \/ UpdateLEDsGreenTest
    \/ \E dt \in WaitChoices(IF pc = "loopGreen" THEN lastSampleTime ELSE capT0) :
          UpdateLEDsGreenWrite(dt)

\* capturePostSamples reading a sample, and the states in which it can
CaptureTask == \E raw \in SensorReadings, dt \in DelayChoices : CaptureSample(raw, dt)

CaptureTaskEnabled ==
    /\ pc = "capture"
    /\ SampleDue(clock, capT0)
    /\ nAppended < MaxSamples
    /\ nAppended + nCallbacks < MaxInputs

\* the main task, and the link coming up
NextFair ==
    \/ MainTask
    \/ CaptureTask
    \/ OnConnect

\* weak fairness of the main task; for the capture's sample it is written
\* out, with the enabling condition as a state predicate
SpecFair ==
    /\ Init
    /\ [][NextFair]_vars
    /\ WF_vars(MainTask)
    /\ ([]<>(~CaptureTaskEnabled) \/ []<><<CaptureTask>>_vars)

----------------------------------------------------------------------------
(* The command handlers of the three firmwares, applied in any state a write
   can find: a link is up and any pattern or helmet state is showing *)

\* CommandCallbacks::onWrite of the IoT/esp32_firmware build
OnWriteIoT(value) ==
    /\ CallbackFrame
    /\ deviceConnected
    /\ SetLed(onWriteIoT(Led, value, deviceConnected))
    /\ op' = [OpRec("onWriteIoT") EXCEPT !.token = value]
    /\ UNCHANGED << deviceConnected, runVars, legacyVars, classifyVars >>

\* CommandCallbacks::onWrite of the legacy firmware
OnWriteLegacy(value) ==
    /\ CallbackFrame
    /\ deviceConnected
    /\ \E S \in {onWriteLegacy([currentState |-> currentState,
                                previousState |-> previousState], value)} :
           /\ currentState' = S.currentState
           /\ previousState' = S.previousState
    /\ op' = [OpRec("onWriteLegacy") EXCEPT !.token = value]
    /\ UNCHANGED << deviceConnected, runVars, ledVars, classifyVars,
                    legacyLoopVars >>

InitCommands ==
    /\ pc = "loop"
    /\ clock = ML_CRASH_COOLDOWN_MS
    /\ mpuOk = TRUE
    /\ errorLit = FALSE
    /\ bleInit = TRUE
    /\ deviceConnected = TRUE
    /\ imuBuffer = [i \in 1..EVENT_WINDOW_SIZE |-> ZeroSample]
    /\ bufferIndex = 0
    /\ bufferFull = FALSE
    /\ lastAccelMag = 100
    /\ lastMagLocal = 100
    /\ lastLocalBrakeMs \in {0, ML_CRASH_COOLDOWN_MS - SAMPLE_INTERVAL_MS}
    /\ lastLocalCrashMs = 0
    /\ lastMLBrakeMs = 0
    /\ lastMLCrashMs = 0
    /\ lastMLAttemptMs = 0
    /\ currentPattern \in LEDPattern \ {LED_OFF}
    /\ savedPattern \in {LED_IDLE, LED_ARMED_RED}
    /\ lastLEDUpdate \in {0, ML_CRASH_COOLDOWN_MS - SAMPLE_INTERVAL_MS}
    /\ ledAnimationStep \in {0, LED_COUNT \div 2}
    /\ brakeEndTime =
          IF currentPattern = LED_BRAKE THEN ML_CRASH_COOLDOWN_MS + 800 ELSE 0
    /\ connectGreenUntil = 3000
    /\ lastSampleTime = ML_CRASH_COOLDOWN_MS - SAMPLE_INTERVAL_MS
    /\ loopNow = 0
    /\ capI = 0
    /\ capT0 = 0
    /\ capLedsAt = -1
    /\ currentState \in HelmetState
    /\ previousState \in {STATE_NORMAL, STATE_BRAKING}
    /\ LegacyIdle
    /\ op = OpRec("init")
    /\ nAppended = 0
    /\ crashRun = NoRun
    /\ brakeRun = NoBrakeRun
    /\ preBrake = LED_IDLE
    /\ NotClassifying
    /\ nEvents = 0
    /\ nJumps = 0
    /\ nShort = 0
    /\ nCallbacks = 0
    /\ nBlinks = 0

NextCommands ==
    \/ \E value \in Payloads : OnWrite(value)
    \/ \E value \in Payloads : OnWriteIoT(value)
    \/ \E value \in LegacyPayloads : OnWriteLegacy(value)

SpecCommands == InitCommands /\ [][NextCommands]_vars

----------------------------------------------------------------------------
(* The first lines of classifyAndRespondToEvent on their own: extractFeatures
   on a sample window, classifyEvent and getClassConfidence on a feature
   vector.  The windows are the fillings of the ring by the sensor readings;
   the vectors take the five features the classifier reads from values on
   both sides of each of its thresholds. *)

\* a rotation without impact: 1.0 g, 260 deg/s
RawTurn == [ax |-> 0, ay |-> 0, az |-> 4096, gx |-> 17030, gy |-> 0, gz |-> 0]

WindowSamples == {readMPU6500(raw, 0) : raw \in SensorReadings \cup {RawTurn}}
Windows == [1..EVENT_WINDOW_SIZE -> WindowSamples]

AccelZStdValues == {0, 90}
AccelMagMaxValues == {100, 221, 259, 261, 319, 321, 361, 500}
GyroMagMaxValues == {0, 1399, 1801, 2001, 2201, 4500}
JerkMeanValues == {0, 601, 3499}
JerkMaxValues == {0, 1401, 1801, 4501, 5499, 5501, 10500}

\* feature_indices.h: FEATURE_NAMES[61]
FEATURE_NAMES ==
    << "accel_x_mean", "accel_x_std", "accel_x_max", "accel_x_min",
       "accel_x_range", "accel_x_median", "accel_x_skew", "accel_x_kurtosis",
       "accel_y_mean", "accel_y_std", "accel_y_max", "accel_y_min",
       "accel_y_range", "accel_y_median", "accel_y_skew", "accel_y_kurtosis",
       "accel_z_mean", "accel_z_std", "accel_z_max", "accel_z_min",
       "accel_z_range", "accel_z_median", "accel_z_skew", "accel_z_kurtosis",
       "accel_mag_mean", "accel_mag_std", "accel_mag_max", "accel_mag_min",
       "accel_mag_range", "accel_mag_median", "accel_mag_skew",
       "accel_mag_kurtosis",
       "gyro_x_mean", "gyro_x_std", "gyro_x_max", "gyro_x_min",
       "gyro_x_range", "gyro_x_abs_max",
       "gyro_y_mean", "gyro_y_std", "gyro_y_max", "gyro_y_min",
       "gyro_y_range", "gyro_y_abs_max",
       "gyro_z_mean", "gyro_z_std", "gyro_z_max", "gyro_z_min",
       "gyro_z_range", "gyro_z_abs_max",
       "gyro_mag_mean", "gyro_mag_max",
       "jerk_mean", "jerk_max", "jerk_std",
       "accel_energy", "gyro_energy",
       "gyro_x_zcr", "gyro_y_zcr", "gyro_z_zcr",
       "peak_position" >>

\* f[17], f[26], f[51], f[52], f[53] of the source, the rest zero
FeatureVector(azs, am, gm, jm, jx) ==
    [i \in 1..N_FEATURES |->
        CASE i = 17 + 1 -> azs
          [] i = 26 + 1 -> am
          [] i = 51 + 1 -> gm
          [] i = 52 + 1 -> jm
          [] i = 53 + 1 -> jx
          [] OTHER -> 0]

FeatureVectors ==
    {FeatureVector(azs, am, gm, jm, jx) :
        azs \in AccelZStdValues, am \in AccelMagMaxValues,
        gm \in GyroMagMaxValues, jm \in JerkMeanValues,
        jx \in JerkMaxValues}

\* the values a feature read by getClassConfidence is drawn from
ReadValues(k) ==
    CASE k = 26 -> AccelMagMaxValues
      [] k = 51 -> GyroMagMaxValues
      [] k = 52 -> JerkMeanValues
      [] k = 53 -> JerkMaxValues

\* extractFeatures(imuBuffer, EVENT_WINDOW_SIZE, features)
ExtractFeatures ==
    /\ op.name \in {"window", "context"}
    /\ features' = extractFeatures(imuBuffer, EVENT_WINDOW_SIZE)
    /\ op' = [OpRec("extractFeatures") EXCEPT
                 !.token = IF op.name = "context" THEN "again" ELSE "-"]
    /\ UNCHANGED << pc, clock, mpuOk, legacyVars, errorLit, bleInit,
                    deviceConnected, bufferVars, triggerVars, cooldownVars,
                    ledVars, lastSampleTime, captureVars, nAppended, runVars,
                    budgetVars, clsOut, confOut >>

\* The rest of the program moves between two calls on the same window
\* contents: the write index, the link, the pattern and a cooldown stamp take
\* any of their values.
SecondCallContext(idx, connected, pattern, stamp) ==
    /\ op.name = "extractFeatures"
    /\ op.token = "-"
    /\ bufferIndex' = idx
    /\ deviceConnected' = connected
    /\ currentPattern' = pattern
    /\ lastLocalBrakeMs' = stamp
    /\ op' = OpRec("context")
    /\ UNCHANGED << pc, clock, mpuOk, legacyVars, errorLit, bleInit,
                    imuBuffer, bufferFull, triggerVars, lastLocalCrashMs,
                    lastMLBrakeMs, lastMLCrashMs, lastMLAttemptMs,
                    savedPattern, lastLEDUpdate, ledAnimationStep,
                    brakeEndTime, connectGreenUntil, lastSampleTime,
                    captureVars, nAppended, runVars, budgetVars,
                    classifyVars >>

\* cls = classifyEvent(features); conf = getClassConfidence(features, cls)
ClassifyVector ==
    /\ op.name \in {"vector", "extractFeatures"}
    /\ \E c \in {ClassifyFeatures(features)} :
          /\ clsOut' = c.cls
          /\ confOut' = c.conf
    /\ op' = OpRec("classifyEvent")
    /\ UNCHANGED << pc, clock, mpuOk, legacyVars, errorLit, bleInit,
                    deviceConnected, bufferVars, triggerVars, cooldownVars,
                    ledVars, lastSampleTime, captureVars, nAppended, runVars,
                    budgetVars, features >>

\* the rest of classifyAndRespondToEvent(nowMs): the class and confidence just
\* computed are reconciled with the cooldowns and the pattern showing
RespondToEvent ==
    /\ op.name = "classifyEvent"
    /\ \E r \in {Reconcile(Led, clsOut, confOut, loopNow, clock, lastMLBrakeMs,
                            lastMLCrashMs, deviceConnected)} :
          /\ SetLed(r.led)
          /\ lastMLBrakeMs' = r.lastBrake
          /\ lastMLCrashMs' = r.lastCrash
          /\ op' = [OpRec("respond") EXCEPT
                       !.cls = r.cls, !.act = r.act, !.rec = r.led,
                       !.notes = r.notes,
                       !.eventWire = EventFrames(r.notes),
                       !.endBefore = brakeEndTime,
                       !.endAfter = r.led.brakeEndTime]
    /\ UNCHANGED << pc, clock, mpuOk, legacyVars, errorLit, bleInit,
                    deviceConnected, bufferVars, triggerVars,
                    lastLocalBrakeMs, lastLocalCrashMs, lastMLAttemptMs,
                    lastSampleTime, captureVars, nAppended, runVars,
                    budgetVars, classifyVars >>

\* getClassConfidence for the same class on a vector with feature f[k] raised
RaiseFeature(k, v) ==
    /\ op.name \in {"classifyEvent", "raiseFeature"}
    /\ v > features[k + 1]
    /\ features' = [features EXCEPT ![k + 1] = v]
    /\ confOut' = getClassConfidence(features', clsOut)
    /\ op' = OpRec("raiseFeature")
    /\ UNCHANGED << pc, clock, mpuOk, legacyVars, errorLit, bleInit,
                    deviceConnected, bufferVars, triggerVars, cooldownVars,
                    ledVars, lastSampleTime, captureVars, nAppended, runVars,
                    budgetVars, clsOut >>

\* measured values on both sides of the ends of the confidence ramps
JerkValues == {0, 1401, 2000, 2999, 3000, 4001, 6500, 8999, 9000, 15000}
MagValues == {100, 219, 301, 400, 499, 500, 600}

\* reportLocalBrake(jerkLocal), for a measurement the local Brake rule accepts
ReportLocalBrake(jerk, mag) ==
    /\ op.name \in {"measure", "reportLocalBrake", "reportLocalCrash"}
    /\ LocalBrakeCond(mag, jerk)
    /\ op' = [OpRec("reportLocalBrake") EXCEPT
                 !.jerk = jerk, !.mag = mag,
                 !.notes = sendEventNotification(deviceConnected,
                                                 reportLocalBrake(jerk)),
                 !.eventWire =
                     EventFrames(sendEventNotification(deviceConnected,
                                     reportLocalBrake(jerk)))]
    /\ UNCHANGED << pc, clock, mpuOk, legacyVars, errorLit, bleInit,
                    deviceConnected, bufferVars, triggerVars, cooldownVars,
                    ledVars, lastSampleTime, captureVars, nAppended, runVars,
                    budgetVars, classifyVars >>

\* reportLocalCrash(jerkLocal, d.accel_mag), for a measurement the local Crash
\* rule accepts
ReportLocalCrash(jerk, mag) ==
    /\ op.name \in {"measure", "reportLocalBrake", "reportLocalCrash"}
    /\ LocalCrashCond(mag, jerk)
    /\ op' = [OpRec("reportLocalCrash") EXCEPT
                 !.jerk = jerk, !.mag = mag,
                 !.notes = sendEventNotification(deviceConnected,
                                                 reportLocalCrash(jerk, mag)),
                 !.eventWire =
                     EventFrames(sendEventNotification(deviceConnected,
                                     reportLocalCrash(jerk, mag)))]
    /\ UNCHANGED << pc, clock, mpuOk, legacyVars, errorLit, bleInit,
                    deviceConnected, bufferVars, triggerVars, cooldownVars,
                    ledVars, lastSampleTime, captureVars, nAppended, runVars,
                    budgetVars, classifyVars >>

InitClassifier ==
    /\ pc = "capture"
    /\ clock = ML_CRASH_COOLDOWN_MS
    /\ mpuOk = TRUE
    /\ currentState = STATE_NORMAL
    /\ previousState = STATE_NORMAL
    /\ LegacyIdle
    /\ errorLit = FALSE
    /\ bleInit = TRUE
    /\ bufferFull = TRUE
    /\ lastAccelMag = 100
    /\ lastMagLocal = 100
    /\ lastLocalCrashMs = 0
    /\ lastMLBrakeMs = 0
    /\ lastMLCrashMs = 0
    /\ lastMLAttemptMs = ML_CRASH_COOLDOWN_MS - SAMPLE_INTERVAL_MS
    /\ savedPattern = LED_IDLE
    /\ lastLEDUpdate = 0
    /\ ledAnimationStep = 0
    /\ brakeEndTime = 0
    /\ connectGreenUntil = 0
    /\ lastSampleTime = ML_CRASH_COOLDOWN_MS - SAMPLE_INTERVAL_MS
    /\ loopNow = ML_CRASH_COOLDOWN_MS - SAMPLE_INTERVAL_MS
    /\ capI = 0
    /\ capT0 = ML_CRASH_COOLDOWN_MS
    /\ capLedsAt = -1
    /\ nAppended = 0
    /\ crashRun = NoRun
    /\ brakeRun = NoBrakeRun
    /\ preBrake = LED_IDLE
    /\ nEvents = 0
    /\ nJumps = 0
    /\ nShort = 0
    /\ nCallbacks = 0
    /\ nBlinks = 0
    /\ clsOut = -1
    /\ confOut = 0
    /\ \/ /\ imuBuffer \in Windows
          /\ bufferIndex \in 0..(EVENT_WINDOW_SIZE - 1)
          /\ deviceConnected \in BOOLEAN
          /\ currentPattern \in {LED_IDLE, LED_TURN_LEFT}
          /\ lastLocalBrakeMs \in {0, ML_CRASH_COOLDOWN_MS - SAMPLE_INTERVAL_MS}
          /\ features = ZeroFeatures
          /\ op = OpRec("window")
       \/ /\ imuBuffer = [i \in 1..EVENT_WINDOW_SIZE |-> readMPU6500(RawRest, 0)]
          /\ bufferIndex = 0
          /\ deviceConnected \in BOOLEAN
          /\ currentPattern = LED_IDLE
          /\ lastLocalBrakeMs = 0
          /\ features \in FeatureVectors
          /\ op = OpRec("vector")
       \/ /\ imuBuffer = [i \in 1..EVENT_WINDOW_SIZE |-> readMPU6500(RawRest, 0)]
          /\ bufferIndex = 0
          /\ deviceConnected = TRUE
          /\ currentPattern = LED_ARMED_RED
          /\ lastLocalBrakeMs = 0
          /\ features = ZeroFeatures
          /\ op = OpRec("measure")

NextClassifier ==
    \/ ExtractFeatures
    \/ \E idx \in 0..(EVENT_WINDOW_SIZE - 1), connected \in BOOLEAN,
          pattern \in {LED_IDLE, LED_TURN_LEFT},
          stamp \in {0, ML_CRASH_COOLDOWN_MS - SAMPLE_INTERVAL_MS} :
          SecondCallContext(idx, connected, pattern, stamp)
    \/ ClassifyVector
    \/ RespondToEvent
    \/ \E k \in {26, 51, 52, 53} : \E v \in ReadValues(k) : RaiseFeature(k, v)
    \/ \E jerk \in JerkValues, mag \in MagValues : ReportLocalBrake(jerk, mag)
    \/ \E jerk \in JerkValues, mag \in MagValues : ReportLocalCrash(jerk, mag)

SpecClassifier == InitClassifier /\ [][NextClassifier]_vars

----------------------------------------------------------------------------
(* The program shortly before millis() wraps: the helmet has been at rest
   with the link down since boot, the ring is full of at-rest samples, no
   channel has fired, and a sample is due 820 ms before the wrap. *)

WrapStart == ULONG_MOD - SAMPLE_INTERVAL_MS - 800

InitWrap ==
    /\ pc = "loop"
    /\ clock = WrapStart
    /\ mpuOk = TRUE
    /\ currentState = STATE_NORMAL
    /\ previousState = STATE_NORMAL
    /\ LegacyIdle
    /\ errorLit = FALSE
    /\ bleInit = TRUE
    /\ deviceConnected = FALSE
    /\ imuBuffer = [i \in 1..EVENT_WINDOW_SIZE |->
                       readMPU6500(RawRest,
                           WrapStart - SAMPLE_INTERVAL_MS
                               * (EVENT_WINDOW_SIZE + 1 - i))]
    /\ bufferIndex = 0
    /\ bufferFull = TRUE
    /\ lastAccelMag = 100
    /\ lastMagLocal = 100
    /\ lastLocalBrakeMs = 0
    /\ lastLocalCrashMs = 0
    /\ lastMLBrakeMs = 0
    /\ lastMLCrashMs = 0
    /\ lastMLAttemptMs = 0
    /\ currentPattern = LED_IDLE
    /\ savedPattern = LED_IDLE
    /\ lastLEDUpdate = 0
    /\ ledAnimationStep = 0
    /\ brakeEndTime = 0
    /\ connectGreenUntil = 0
    /\ lastSampleTime = WrapStart - SAMPLE_INTERVAL_MS
    /\ loopNow = 0
    /\ capI = 0
    /\ capT0 = 0
    /\ capLedsAt = -1
    /\ op = OpRec("uptime")
    /\ nAppended = 0
    /\ crashRun = NoRun
    /\ brakeRun = NoBrakeRun
    /\ preBrake = LED_IDLE
    /\ NotClassifying
    /\ nEvents = 0
    /\ nJumps = 0
    /\ nShort = 0
    /\ nCallbacks = 0
    /\ nBlinks = 0

\* loop() and the callbacks; setup() is long over
NextWrap ==
    \/ \E dt \in WaitChoices(lastSampleTime) : LoopIdle(dt)
    \/ \E raw \in SensorReadings, dt \in DelayChoices : LoopSample(raw, dt)
    \/ \E dt \in WaitChoices(capT0) : CaptureWait(dt)
    \/ \E raw \in SensorReadings, dt \in DelayChoices : CaptureSample(raw, dt)
    \/ UpdateLEDsGreenTest
    \/ \E dt \in WaitChoices(IF pc = "loopGreen" THEN lastSampleTime ELSE capT0) :
          UpdateLEDsGreenWrite(dt)
    \/ OnConnect
    \/ OnDisconnect
    \/ \E value \in Payloads : OnWrite(value)

SpecWrap == InitWrap /\ [][NextWrap]_vars

----------------------------------------------------------------------------
(* The legacy firmware, src/Luma/firmware: loop() on the Arduino task and
   CommandCallbacks::onWrite on the BLE task share the volatile currentState
   with no lock.  loop() is taken in the steps that read or write
   currentState; the callback in two, the test of its case and the
   assignments.  Telemetry and the LED frame are left out. *)

\* #define BRAKE_FLASH_DURATION
BRAKE_FLASH_DURATION == 3000

\* readSensors(): isBraking is set only when isCrash is not
SensorOutcomes ==
    {[isBraking |-> FALSE, isCrash |-> FALSE],
     [isBraking |-> TRUE, isCrash |-> FALSE],
     [isBraking |-> FALSE, isCrash |-> TRUE]}

\* the variables of the other builds
appVars ==
    << pc, mpuOk, errorLit, bleInit, deviceConnected, bufferVars, triggerVars,
       cooldownVars, ledVars, lastSampleTime, captureVars, runVars,
       classifyVars, nEvents, nShort, nBlinks >>

\* the legacy firmware running, a phone connected
InitLegacy ==
    /\ pc = "loop"
    /\ clock = 0
    /\ mpuOk = TRUE
    /\ currentState = STATE_NORMAL
    /\ previousState = STATE_NORMAL
    /\ LegacyIdle
    /\ errorLit = FALSE
    /\ bleInit = TRUE
    /\ deviceConnected = TRUE
    /\ imuBuffer = [i \in 1..EVENT_WINDOW_SIZE |-> ZeroSample]
    /\ bufferIndex = 0
    /\ bufferFull = FALSE
    /\ lastAccelMag = 100
    /\ lastMagLocal = 100
    /\ lastLocalBrakeMs = 0
    /\ lastLocalCrashMs = 0
    /\ lastMLBrakeMs = 0
    /\ lastMLCrashMs = 0
    /\ lastMLAttemptMs = 0
    /\ currentPattern = LED_IDLE
    /\ savedPattern = LED_IDLE
    /\ lastLEDUpdate = 0
    /\ ledAnimationStep = 0
    /\ brakeEndTime = 0
    /\ connectGreenUntil = 0
    /\ lastSampleTime = 0
    /\ loopNow = 0
    /\ capI = 0
    /\ capT0 = 0
    /\ capLedsAt = -1
    /\ op = OpRec("legacy")
    /\ nAppended = 0
    /\ crashRun = NoRun
    /\ brakeRun = NoBrakeRun
    /\ preBrake = LED_IDLE
    /\ NotClassifying
    /\ nEvents = 0
    /\ nJumps = 0
    /\ nShort = 0
    /\ nCallbacks = 0
    /\ nBlinks = 0

\* loop(): currentTime = millis(); when 20 ms have passed, readSensors()
LegacyLoopTop(data) ==
    /\ legacyPc = "top"
    /\ nAppended < MaxSamples
    /\ currentTime' = clock
    /\ IF Sub32(clock, lastSensorRead) >= 20
       THEN /\ lastSensorRead' = clock
            /\ sensorData' = data
            /\ nAppended' = nAppended + 1
            /\ legacyPc' = "crash"
       ELSE /\ data = NoSensorData
            /\ legacyPc' = "timeout"
            /\ UNCHANGED << lastSensorRead, sensorData, nAppended >>
    /\ op' = OpRec("legacyTop")
    /\ UNCHANGED << appVars, clock, nJumps, nCallbacks, currentState,
                    previousState, brakeStartTime, crashDetectedTime, cbPc,
                    cbCommand >>

\* if (sensorData.isCrash && currentState != STATE_CRASH_ALERT)
LegacyCrashStep ==
    /\ legacyPc = "crash"
    /\ IF sensorData.isCrash /\ currentState # STATE_CRASH_ALERT
       THEN /\ currentState' = STATE_CRASH_ALERT
            /\ crashDetectedTime' = currentTime
       ELSE UNCHANGED << currentState, crashDetectedTime >>
    /\ legacyPc' = "brake"
    /\ op' = OpRec("legacyCrash")
    /\ UNCHANGED << appVars, clock, nAppended, nJumps, nCallbacks,
                    previousState, sensorData, currentTime, lastSensorRead,
                    brakeStartTime, cbPc, cbCommand >>

\* if (sensorData.isBraking && currentState is none of crash alert, turn
\* left, turn right) { if (currentState != STATE_BRAKING) ... }
LegacyBrakeStep ==
    /\ legacyPc = "brake"
    /\ IF /\ sensorData.isBraking
          /\ currentState \notin {STATE_CRASH_ALERT, STATE_TURN_LEFT,
                                  STATE_TURN_RIGHT, STATE_BRAKING}
       THEN /\ currentState' = STATE_BRAKING
            /\ brakeStartTime' = currentTime
       ELSE UNCHANGED << currentState, brakeStartTime >>
    /\ legacyPc' = "timeout"
    /\ op' = OpRec("legacyBrake")
    /\ UNCHANGED << appVars, clock, nAppended, nJumps, nCallbacks,
                    previousState, sensorData, currentTime, lastSensorRead,
                    crashDetectedTime, cbPc, cbCommand >>

\* the brake light timeout, and the rest of the turn of loop(), which takes
\* dt
LegacyTimeoutStep(dt) ==
    /\ legacyPc = "timeout"
    /\ currentState' =
          IF /\ currentState = STATE_BRAKING
             /\ Sub32(currentTime, brakeStartTime) >= BRAKE_FLASH_DURATION
          THEN STATE_NORMAL ELSE currentState
    /\ legacyPc' = "top"
    /\ clock' = Add32(clock, dt)
    /\ nJumps' = IF dt > 20 THEN nJumps + 1 ELSE nJumps
    /\ op' = OpRec("legacyTimeout")
    /\ UNCHANGED << appVars, nAppended, nCallbacks, previousState,
                    sensorData, currentTime, lastSensorRead, brakeStartTime,
                    crashDetectedTime, cbPc, cbCommand >>

LegacyTurnTimes ==
    {20} \cup (IF nJumps < MaxJumps THEN {BRAKE_FLASH_DURATION} ELSE {})

\* onWrite: command = value[0]; the test of command's case
LegacyOnWriteTest(value) ==
    /\ cbPc = "idle"
    /\ nCallbacks < MaxCallbacks
    /\ nCallbacks' = nCallbacks + 1
    /\ IF Len(value) > 0 /\ CommandGuard(value[1], currentState)
       THEN /\ cbPc' = "write"
            /\ cbCommand' = value[1]
       ELSE UNCHANGED << cbPc, cbCommand >>
    /\ op' = [OpRec("legacyTest") EXCEPT
                 !.token = IF cbPc' = "write" THEN << cbCommand' >> ELSE << >>]
    /\ UNCHANGED << appVars, clock, nAppended, nJumps, currentState,
                    previousState, legacyPc, sensorData, currentTime,
                    lastSensorRead, brakeStartTime, crashDetectedTime >>

\* onWrite: the assignments of command's case
LegacyOnWriteWrite ==
    /\ cbPc = "write"
    /\ \E S \in {CommandWrite([currentState |-> currentState,
                               previousState |-> previousState], cbCommand)} :
          /\ currentState' = S.currentState
          /\ previousState' = S.previousState
    /\ cbPc' = "idle"
    /\ op' = [OpRec("legacyWrite") EXCEPT !.token = << cbCommand >>]
    /\ UNCHANGED << appVars, clock, nAppended, nJumps, nCallbacks, legacyPc,
                    sensorData, currentTime, lastSensorRead, brakeStartTime,
                    crashDetectedTime, cbCommand >>

NextLegacy ==
    \/ \E data \in SensorOutcomes : LegacyLoopTop(data)
    \/ LegacyCrashStep
    \/ LegacyBrakeStep
    \/ \E dt \in LegacyTurnTimes : LegacyTimeoutStep(dt)
    \/ \E value \in LegacyPayloads : LegacyOnWriteTest(value)
    \/ LegacyOnWriteWrite

SpecLegacy == InitLegacy /\ [][NextLegacy]_vars

----------------------------------------------------------------------------
(* The decision-tree strategy, src/Sensing/classifier/classifier_tree.c.  Its
   features are the min-max scaled ones, here in millionths; f[k + 1] is
   features[k] of the source. *)

\* feature_indices.h: the class ordinals of the tree
TREE_CLASS_BRAKE == 0
TREE_CLASS_BUMP == 1
TREE_CLASS_CRASH == 2
TREE_CLASS_NORMAL == 3
TREE_CLASS_TURN == 4

\* classifier.h: CLASS_NAMES, indexed by the ordinal
CLASS_NAMES == << "brake", "bump", "crash", "normal", "turn" >>

\* a tree that puts every vector beyond the root's threshold in one leaf
classify_event_OneLeafBeyondRoot(f) ==
    IF f[25 + 1] <= 156149 THEN 3 ELSE 1

\* int classify_event(float* features)
classify_event(f) ==
    IF f[25 + 1] <= 156149
    THEN IF f[30 + 1] <= 571526
         THEN IF f[38 + 1] <= 516850
              THEN IF f[6 + 1] <= 462831
                   THEN 3
                   ELSE IF f[57 + 1] <= 307517
                        THEN 4
                        ELSE IF f[13 + 1] <= 887556
                             THEN 0
                             ELSE IF f[39 + 1] <= 63562
                                  THEN 4
                                  ELSE IF f[41 + 1] <= 811531 THEN 3 ELSE 1
              ELSE IF f[17 + 1] <= 145395
                   THEN IF f[11 + 1] <= 917256
                        THEN 4
                        ELSE IF f[35 + 1] <= 956297
                             THEN IF f[43 + 1] <= 81519 THEN 1 ELSE 0
                             ELSE 3
                   ELSE IF f[34 + 1] <= 112578
                        THEN 0
                        ELSE IF f[52 + 1] <= 356674
                             THEN IF f[13 + 1] <= 914238 THEN 3 ELSE 1
                             ELSE 0
         ELSE IF f[28 + 1] <= 92892
              THEN 3
              ELSE IF f[22 + 1] <= 622492 THEN 0 ELSE 3
    ELSE IF f[19 + 1] <= 438382
         THEN 2
         ELSE IF f[16 + 1] <= 153465
              THEN IF f[14 + 1] <= 381496
                   THEN IF f[7 + 1] <= 62198
                        THEN 3
                        ELSE IF f[25 + 1] <= 183816 THEN 0 ELSE 1
                   ELSE 1
              ELSE IF f[60 + 1] <= 340081
                   THEN 1
                   ELSE IF f[13 + 1] <= 927018 THEN 3 ELSE 1

\* the features the tree tests once, each with its threshold
TreeThreshold ==
    [k \in {30, 38, 6, 57, 39, 41, 17, 11, 35, 43, 34, 52, 28, 22, 19, 16,
            14, 7, 60} |->
        CASE k = 30 -> 571526 [] k = 38 -> 516850 [] k = 6 -> 462831
          [] k = 57 -> 307517 [] k = 39 -> 63562  [] k = 41 -> 811531
          [] k = 17 -> 145395 [] k = 11 -> 917256 [] k = 35 -> 956297
          [] k = 43 -> 81519  [] k = 34 -> 112578 [] k = 52 -> 356674
          [] k = 28 -> 92892  [] k = 22 -> 622492 [] k = 19 -> 438382
          [] k = 16 -> 153465 [] k = 14 -> 381496 [] k = 7 -> 62198
          [] k = 60 -> 340081]

\* the values on both sides of the thresholds of the features tested twice
\* or more: features[25] and features[13]
Feature25Values == {156149, 156150, 183816, 183817}
Feature13Values == {887556, 914238, 927018, 927019}

\* at most MaxAbove of the other tested features lie just above their
\* threshold, the rest on it
MaxAbove == 4

TreeVector(above, f25, f13) ==
    [i \in 1..N_FEATURES |->
        CASE i = 25 + 1 -> f25
          [] i = 13 + 1 -> f13
          [] (i - 1) \in DOMAIN TreeThreshold ->
                IF (i - 1) \in above THEN TreeThreshold[i - 1] + 1
                ELSE TreeThreshold[i - 1]
          [] OTHER -> 0]

TreeVectors ==
    {TreeVector(above, f25, f13) :
        above \in {S \in SUBSET DOMAIN TreeThreshold : Cardinality(S) <= MaxAbove},
        f25 \in Feature25Values, f13 \in Feature13Values}

\* a caller's feature vector, before the call
InitTree ==
    /\ InitGlobals
    /\ features \in TreeVectors
    /\ clsOut = -1
    /\ confOut = 0

\* cls = classify_event(features)
ClassifyTree ==
    /\ op.name = "init"
    /\ clsOut' = classify_event(features)
    /\ op' = [OpRec("classify_event") EXCEPT !.cls = clsOut']
    /\ UNCHANGED << pc, clock, mpuOk, legacyVars, errorLit, bleInit,
                    deviceConnected, bufferVars, triggerVars, cooldownVars,
                    ledVars, lastSampleTime, captureVars, nAppended, runVars,
                    budgetVars, features, confOut >>

NextTree == ClassifyTree

SpecTree == InitTree /\ [][NextTree]_vars

----------------------------------------------------------------------------
(* Properties *)

\* a step handled a Brake detection: the local brake branch of loop() ran, or
\* classifyAndRespondToEvent got the class Brake
BrakeDetected(o) ==
    o.det \in {"brake_fire", "brake_extend"} \/ o.cls = CLASS_BRAKE

\* C1: while the pattern is Crash, no step that handles a Brake detection, on
\* the local path or on the model path, leaves the pattern other than Crash.
C1_BrakeNeverReplacesCrash ==
    [][(currentPattern = LED_CRASH /\ BrakeDetected(op'))
          => currentPattern' = LED_CRASH]_vars

\* C2: once the local path has fired Crash at lastLocalCrashMs, the model path
\* fires Crash only when at least the crash cooldown has passed since then,
\* whatever callbacks ran in between.
C2_NoModelCrashInsideLocalCooldown ==
    (op.act = "crash_fire" /\ lastLocalCrashMs # 0)
        => Sub32(op.t, lastLocalCrashMs) >= LOCAL_CRASH_COOLDOWN_MS

\* C3: in a run of crash-condition ticks within LOCAL_CRASH_COOLDOWN_MS of the
\* local crash fire that began it, with the link connected, exactly one Crash
\* notification has been sent.
C3_OneCrashNotificationPerRun ==
    crashRun.n \in {-1, 1}

\* C4: a Brake detection handled while the pattern was already Brake sends no
\* Brake notification.
C4_NoNotificationWhileBrakeShown ==
    (op.patAt = LED_BRAKE /\ BrakeDetected(op)) => BrakeNotes(op.notes) = 0

\* C5: a Brake detection handled while the pattern was Brake leaves
\* brakeEndTime at or after the value it had before.
C5_BrakeEndTimeNeverEarlier ==
    (op.patAt = LED_BRAKE /\ BrakeDetected(op)) => op.endAfter >= op.endBefore

\* C6: with the link connected and the pattern not Brake or Crash, the first
\* tick of a run of brake-jerk ticks sends one local Brake notification, and
\* no later tick of the run sends another before LOCAL_BRAKE_COOLDOWN_MS
\* have passed since the last one.
C6_BrakeFiresOnceThenSuppressed ==
    brakeRun.st \notin {"unready", "silent", "early"}

\* C6 as amended: the same, for runs on whose first tick the local brake
\* cooldown has elapsed.
C6_ReadyBrakeFiresOnceThenSuppressed ==
    brakeRun.st \notin {"silent", "early"}

\* a later tick of a run that fired: the jerk continues and nothing is sent
C6_Witness ==
    /\ brakeRun.st = "fired"
    /\ op.name = "loopSample" /\ op.brakeCond /\ op.det = "none"
    /\ brakeRun.at # op.t

\* C7: bufferFull is false until EVENT_WINDOW_SIZE samples have been appended,
\* and neither the extra capture nor the classification runs while it is
\* false.
C7_NoClassificationBeforeFull ==
    /\ bufferFull => nAppended >= EVENT_WINDOW_SIZE
    /\ pc = "capture" => bufferFull
    /\ op.cls # -1 => bufferFull

\* a spike sampled after the attempt cooldown but before the window is full:
\* the loop goes on without a model attempt
C7_Witness ==
    /\ ~bufferFull /\ pc = "loop"
    /\ op.name = "loopSample" /\ op.crashCond
    /\ op.t >= ML_ATTEMPT_COOLDOWN_MS

\* C8: a command callback leaves currentPattern, ledAnimationStep and
\* lastLEDUpdate as they are; only steps of the main loop write them.
C8_CommandNeverWritesActuationState ==
    [][op'.name = "onWrite"
          => UNCHANGED << currentPattern, ledAnimationStep, lastLEDUpdate >>]_vars

\* C9: after initMPU6500 returned false the device is in the error indicator:
\* the link is not initialised, loop() is not entered, no sample is read and
\* nothing is sent.
C9_SensorFailureIsTerminal ==
    (pc # "setup" /\ ~mpuOk)
        => /\ pc = "error"
           /\ ~bleInit /\ ~deviceConnected
           /\ nAppended = 0
           /\ op.name \in {"setup", "errorBlink"}
           /\ op.notes = << >> /\ op.tele = 0

\* the error indicator has blinked as long as the run lasts
C9_Witness ==
    ~mpuOk /\ pc = "error" /\ nBlinks = MaxBlinks /\ op.name = "errorBlink"

\* a step of a command handler whose payload is none of its known tokens
UnknownCommand(o) ==
    \/ o.name \in {"onWrite", "onWriteIoT"} /\ o.token \notin KnownTokens
    \/ o.name = "onWriteLegacy" /\ o.token \notin LegacyTokens

\* C10: in each of the three firmwares a command whose payload is none of
\* the known tokens changes neither the LED or helmet state, nor a cooldown
\* stamp, nor the sample buffer.
C10_UnknownPayloadIsNoOp ==
    [][UnknownCommand(op')
          => UNCHANGED << ledVars, legacyVars, cooldownVars, bufferVars >>]_vars

\* C11: when updateLEDs ends a Brake on its timeout, the pattern becomes the
\* one that was showing when that Brake was requested.
C11_BrakeRevertsToPriorPattern ==
    op.expired = "brake" => currentPattern = preBrake

\* a step of loop() or of the capture in which updateLEDs ran from its start
\* with no detection firing; the write half of a split indicator timeout is
\* the end of a call that began while the indicator was showing
QuietLoopStep(o) ==
    /\ o.name \in {"loopIdle", "loopSample", "captureWait", "captureSample",
                   "classify", "greenTest"}
    /\ o.det = "none"
    /\ o.act \in {"none", "report"}
    /\ o.expired # "green"

\* C12: while Crash, TurnLeft, TurnRight or Party shows, a step with no
\* detection, no command and no connect or disconnect leaves the pattern as it
\* is, whatever time has passed; only Brake and the connect indicator leave
\* by a timeout.
C12_OnlyBrakeAndIndicatorTimeOut ==
    [][(QuietLoopStep(op')
        /\ currentPattern \in {LED_CRASH, LED_TURN_LEFT, LED_TURN_RIGHT,
                               LED_PARTY})
       => currentPattern' = currentPattern]_vars

\* Crash still shows after an updateLEDs call made after the end time of an
\* earlier Brake had passed
C12_Witness ==
    /\ QuietLoopStep(op)
    /\ op.patAt = LED_CRASH
    /\ currentPattern = LED_CRASH
    /\ brakeEndTime # 0
    /\ op.t > brakeEndTime

\* C13: when the connect indicator times out the pattern becomes Armed if
\* the link is up at that moment and Idle if it is not, whatever callbacks
\* ran around the updateLEDs call.
C13_GreenTimeoutFollowsLink ==
    op.expired = "green"
        => currentPattern = IF deviceConnected THEN LED_ARMED_RED ELSE LED_IDLE

\* the condition under which classifyEvent returns each class, as the
\* source writes it
CrashPredicate(f) ==
    \/ (f[26 + 1] > 320 /\ f[53 + 1] > 5500 /\ f[51 + 1] > 2200)
    \/ (f[26 + 1] > 360 /\ f[53 + 1] > 4500 /\ f[51 + 1] > 1800)

BrakePredicate(f) ==
    /\ f[52 + 1] > 600 /\ f[52 + 1] < 3500
    /\ f[53 + 1] > 1400 /\ f[53 + 1] < 5500
    /\ f[51 + 1] < 1400
    /\ f[26 + 1] < 260
    /\ f[17 + 1] < 90

TurnPredicate(f) == f[51 + 1] > 2000 /\ f[26 + 1] < 220

BumpPredicate(f) ==
    /\ f[26 + 1] > 220 /\ f[26 + 1] < 320
    /\ f[53 + 1] > 1800 /\ f[53 + 1] < 7000

\* the first class, in the order Crash, Brake, Turn, Bump, whose predicate
\* holds, else Normal
FirstInPriority(f) ==
    IF CrashPredicate(f) THEN CLASS_CRASH
    ELSE IF BrakePredicate(f) THEN CLASS_BRAKE
    ELSE IF TurnPredicate(f) THEN CLASS_TURN
    ELSE IF BumpPredicate(f) THEN CLASS_BUMP
    ELSE CLASS_NORMAL

\* C14: classifyEvent returns the first class in the priority Crash > Brake >
\* Turn > Bump whose predicate holds on the vector, and Normal when none does.
C14_FirstMatchWins ==
    op.name = "classifyEvent" => clsOut = FirstInPriority(features)

\* a vector on which both the Brake and the Bump predicate hold was
\* classified Brake
C14_Witness ==
    /\ op.name = "classifyEvent"
    /\ BrakePredicate(features)
    /\ BumpPredicate(features)
    /\ clsOut = CLASS_BRAKE

\* every sample of the window is the at-rest sample: 1.0 g, no rotation
AtRestWindow(buffer) ==
    \A i \in 1..EVENT_WINDOW_SIZE :
        /\ buffer[i].accel_mag = 100
        /\ buffer[i].gyro_x = 0 /\ buffer[i].gyro_y = 0 /\ buffer[i].gyro_z = 0

\* C15: the features of a window of identical at-rest samples are classified
\* Normal, and a classification of Normal always carries confidence 0.8.
C15_RestIsNormalAtDefaultConfidence ==
    /\ (op.name = "classifyEvent" /\ AtRestWindow(imuBuffer)
        /\ features = extractFeatures(imuBuffer, EVENT_WINDOW_SIZE))
       => clsOut = CLASS_NORMAL
    /\ clsOut = CLASS_NORMAL => confOut = 800

C15_Witness ==
    /\ op.name = "classifyEvent"
    /\ AtRestWindow(imuBuffer)
    /\ features = extractFeatures(imuBuffer, EVENT_WINDOW_SIZE)
    /\ clsOut = CLASS_NORMAL
    /\ confOut = 800

\* the largest confidence getClassConfidence gives for a class
ConfidenceCeiling(c) ==
    CASE c = CLASS_CRASH -> 1000
      [] c = CLASS_BRAKE -> 950
      [] c = CLASS_TURN -> 900
      [] c = CLASS_BUMP -> 850
      [] OTHER -> 1000

\* C16: the confidence of a classification lies in [0.2, 1.0] and below the
\* ceiling of its class (Crash 1.0, Brake 0.95, Turn 0.9, Bump 0.85), and
\* raising any feature getClassConfidence reads never lowers it.
C16_ConfidenceBoundedAndMonotone ==
    [][/\ op'.name \in {"classifyEvent", "raiseFeature"}
          => /\ confOut' >= 200
             /\ confOut' <= 1000
             /\ confOut' <= ConfidenceCeiling(clsOut')
       /\ op'.name = "raiseFeature" => confOut' >= confOut]_vars

\* a Brake at its ceiling that stays there when its jerk_max is raised
C16_Witness ==
    /\ op.name = "raiseFeature"
    /\ clsOut = CLASS_BRAKE
    /\ confOut = 950
    /\ features[53 + 1] > 5500

\* the line from 0.2 at lo to 1.0 at hi, flat outside, in 0.001
Ramp(x, lo, hi) ==
    IF x <= lo THEN 200
    ELSE IF x >= hi THEN 1000
    ELSE 200 + (800 * (x - lo)) \div (hi - lo)

\* equal up to the last digit kept
Near(a, b) == Abs(a - b) <= 1

LocalReport(o) == o.name \in {"reportLocalBrake", "reportLocalCrash"}

\* C17: a local notification carries a confidence in [0.2, 1.0] that never
\* falls when the measurement rises: for Brake 0.2 up to a jerk of 14 g/s and
\* 1.0 from 30 g/s; for Crash the larger of the jerk ramp over 40..90 g/s and
\* the magnitude ramp over 3.0..5.0 g; the feature vector is not touched.
C17_LocalConfidenceIsMonotoneRamp ==
    [][LocalReport(op')
       => /\ Len(op'.notes) = 1
          /\ op'.notes[1].conf >= 200 /\ op'.notes[1].conf <= 1000
          /\ op'.name = "reportLocalBrake"
             => /\ op'.notes[1].cls = CLASS_BRAKE
                /\ Near(op'.notes[1].conf, Ramp(op'.jerk, 1400, 3000))
          /\ op'.name = "reportLocalCrash"
             => /\ op'.notes[1].cls = CLASS_CRASH
                /\ Near(op'.notes[1].conf,
                        Max2(Ramp(op'.jerk, 4000, 9000),
                             Ramp(op'.mag, 300, 500)))
          /\ (op.name = op'.name /\ op'.jerk >= op.jerk /\ op'.mag >= op.mag)
             => op'.notes[1].conf >= op.notes[1].conf
          /\ UNCHANGED features]_vars

\* a Crash report between the ends of both ramps, decided by the magnitude
C17_Witness ==
    /\ op.name = "reportLocalCrash"
    /\ op.jerk = 4001
    /\ op.mag = 400
    /\ op.notes[1].conf = 600

\* the quantity a feature name stands for, on a window, for the five names
\* the threshold classifier relies on
NamedFeature(name, buffer) ==
    LET n    == EVENT_WINDOW_SIZE
        az   == [i \in 1..n |-> buffer[i].accel_z]
        am   == [i \in 1..n |-> buffer[i].accel_mag]
        gm   == [i \in 1..n |->
                   ISqrt(buffer[i].gyro_x * buffer[i].gyro_x
                         + buffer[i].gyro_y * buffer[i].gyro_y
                         + buffer[i].gyro_z * buffer[i].gyro_z)]
        jerk == [i \in 1..(n - 1) |-> Abs(am[i+1] - am[i]) * IMU_SAMPLE_RATE]
    IN  CASE name = "accel_z_std" -> calculateStd(az, calculateMean(az))
          [] name = "accel_mag_max" -> SeqMax(am)
          [] name = "gyro_mag_max" -> SeqMax(gm)
          [] name = "jerk_mean" -> calculateMean(jerk)
          [] name = "jerk_max" -> SeqMax(jerk)

\* C18: extractFeatures fills exactly the 61 positions 0..60, and positions
\* 17, 26, 51, 52 and 53 hold accel_z std, accel_mag max, gyro_mag max, jerk
\* mean and jerk max, the names FEATURE_NAMES gives those positions.
C18_VectorLayoutMatchesNames ==
    op.name = "extractFeatures"
    => /\ DOMAIN features = 1..N_FEATURES
       /\ Len(FEATURE_NAMES) = N_FEATURES
       /\ FEATURE_NAMES[17 + 1] = "accel_z_std"
       /\ FEATURE_NAMES[26 + 1] = "accel_mag_max"
       /\ FEATURE_NAMES[51 + 1] = "gyro_mag_max"
       /\ FEATURE_NAMES[52 + 1] = "jerk_mean"
       /\ FEATURE_NAMES[53 + 1] = "jerk_max"
       /\ \A k \in {17, 26, 51, 52, 53} :
             features[k + 1] = NamedFeature(FEATURE_NAMES[k + 1], imuBuffer)

\* the features of a window in which all five quantities are non-zero
C18_Witness ==
    /\ op.name = "extractFeatures"
    /\ \A k \in {17, 26, 51, 52, 53} : features[k + 1] > 0
    /\ features[52 + 1] < features[53 + 1]

C20_OneFramePerAppendedSample ==
    [][/\ nAppended' = nAppended + 1
          => /\ op'.name \in {"loopSample", "captureSample", "classify"}
             /\ deviceConnected
                => /\ op'.tele = 1
                   /\ op'.frame = imuBuffer'[bufferIndex + 1].timestamp
             /\ ~deviceConnected => (op'.tele = 0 /\ op'.frame = -1)
       /\ nAppended' = nAppended => (op'.tele = 0 /\ op'.frame = -1)]_vars

\* a sample read inside capturePostSamples went out on the link
C20_Witness ==
    /\ op.name = "captureSample"
    /\ deviceConnected
    /\ op.tele = 1
    /\ op.frame = op.t

\* the sample most recently stored in the ring
LastAppended ==
    imuBuffer[((bufferIndex + EVENT_WINDOW_SIZE - 1) % EVENT_WINDOW_SIZE) + 1]

\* a frame read as consecutive little-endian singles, from byte k (from 0)
FloatAt(frame, k) == Float32FromBytes(SubSeq(frame, k + 1, k + 4))

\* C21: reading the 28-byte telemetry frame as 7 little-endian singles gives
\* back accel x, y, z, gyro x, y, z and the timestamp of the sample, and the
\* 5-byte event frame gives back the class in byte 0 and the confidence.
C21_FramesRoundTrip ==
    /\ op.tele = 1
       => /\ Len(op.wire) = 28
          /\ FloatAt(op.wire, 0) = FloatValue(LastAppended.accel_x)
          /\ FloatAt(op.wire, 4) = FloatValue(LastAppended.accel_y)
          /\ FloatAt(op.wire, 8) = FloatValue(LastAppended.accel_z)
          /\ FloatAt(op.wire, 12) = FloatValue(LastAppended.gyro_x)
          /\ FloatAt(op.wire, 16) = FloatValue(LastAppended.gyro_y)
          /\ FloatAt(op.wire, 20) = FloatValue(LastAppended.gyro_z)
          /\ FloatAt(op.wire, 24) = FloatValue(LastAppended.timestamp)
    /\ \A i \in DOMAIN op.notes :
          /\ Len(op.eventWire[i]) = 5
          /\ op.eventWire[i][1] = op.notes[i].cls
          /\ op.eventWire[i][1] \in 0..4
          /\ FloatAt(op.eventWire[i], 1) = FloatValue(op.notes[i].conf)

\* the model path's reconciliation of a Crash classification, as a step
CrashReconciled == op'.name = "classify" /\ op'.cls = CLASS_CRASH

\* C22: a Crash classification fires (stamps lastMLCrashMs, shows Crash,
\* notifies a connected phone) exactly when the ML crash cooldown has elapsed
\* and the pattern showing is not Crash; when it does not fire it leaves the
\* pattern, the animation step and lastMLCrashMs alone and sends nothing.
C22_ModelCrashFiresIffCooledAndNotShowing ==
    [][CrashReconciled =>
        LET cooled == Sub32(loopNow, lastMLCrashMs) >= ML_CRASH_COOLDOWN_MS
            fires  == cooled /\ currentPattern # LED_CRASH
        IN  /\ (op'.act = "crash_fire") <=> fires
            /\ fires =>
                  /\ lastMLCrashMs' = loopNow
                  /\ op'.rec.currentPattern = LED_CRASH
                  /\ op'.rec.ledAnimationStep = 0
                  /\ Len(op'.notes) = (IF deviceConnected THEN 1 ELSE 0)
                  /\ \A i \in DOMAIN op'.notes :
                         op'.notes[i].cls = CLASS_CRASH
            /\ ~fires =>
                  /\ lastMLCrashMs' = lastMLCrashMs
                  /\ op'.rec.currentPattern = currentPattern
                  /\ op'.rec.ledAnimationStep = ledAnimationStep
                  /\ op'.notes = << >>
                  /\ op'.act = "none"]_vars

\* a Crash classification that fired while the phone was connected
C22_Witness ==
    /\ op.name = "classify"
    /\ op.cls = CLASS_CRASH
    /\ op.act = "crash_fire"
    /\ lastMLCrashMs = loopNow
    /\ Len(op.notes) = 1

\* the reconciliation of a classification that is neither Brake nor Crash
OtherClassReconciled ==
    /\ op'.name \in {"respond", "classify"}
    /\ op'.cls \in {CLASS_BUMP, CLASS_NORMAL, CLASS_TURN}

\* C23: for Bump, Normal and Turn the reconciliation leaves the pattern, the
\* animation step, brakeEndTime, savedPattern and the model brake and crash
\* stamps as they were, and sends one notification of that class, with the
\* confidence computed, exactly when the link is connected.
C23_OtherClassesOnlyReport ==
    [][OtherClassReconciled =>
        /\ op'.rec.currentPattern = currentPattern
        /\ op'.rec.ledAnimationStep = ledAnimationStep
        /\ op'.rec.brakeEndTime = brakeEndTime
        /\ op'.rec.savedPattern = savedPattern
        /\ lastMLBrakeMs' = lastMLBrakeMs
        /\ lastMLCrashMs' = lastMLCrashMs
        /\ lastLocalBrakeMs' = lastLocalBrakeMs
        /\ lastLocalCrashMs' = lastLocalCrashMs
        /\ op'.notes = IF deviceConnected
                       THEN << [cls |-> op'.cls, conf |-> confOut] >>
                       ELSE << >>]_vars

\* a Turn reported to a connected phone while a turn signal was showing
C23_Witness ==
    /\ op.name = "respond"
    /\ op.cls = CLASS_TURN
    /\ Len(op.notes) = 1
    /\ deviceConnected
    /\ currentPattern = LED_TURN_LEFT

\* a step moves a last-fired timestamp only by at least the channel's cooldown
StampedApart(before, after, cooldown) ==
    after # before => Sub32(after, before) >= cooldown

\* C24: on each of the five channels (local brake, local crash, model brake,
\* model crash, model attempt) every new value of the last-fired timestamp is
\* at least the channel's cooldown after the value it replaces.
C24_StampsAtLeastCooldownApart ==
    [][/\ StampedApart(lastLocalBrakeMs, lastLocalBrakeMs',
                       LOCAL_BRAKE_COOLDOWN_MS)
       /\ StampedApart(lastLocalCrashMs, lastLocalCrashMs',
                       LOCAL_CRASH_COOLDOWN_MS)
       /\ StampedApart(lastMLBrakeMs, lastMLBrakeMs', ML_BRAKE_COOLDOWN_MS)
       /\ StampedApart(lastMLCrashMs, lastMLCrashMs', ML_CRASH_COOLDOWN_MS)
       /\ StampedApart(lastMLAttemptMs, lastMLAttemptMs',
                       ML_ATTEMPT_COOLDOWN_MS)]_vars

\* the local crash channel stamped a second time, after an earlier stamp
C24_Witness ==
    /\ op.name = "loopSample"
    /\ op.det = "crash"
    /\ op.stamps[2] # 0
    /\ lastLocalCrashMs # op.stamps[2]
    /\ Sub32(lastLocalCrashMs, op.stamps[2]) >= LOCAL_CRASH_COOLDOWN_MS

\* C25: every sample appended to the ring, in loop() or in
\* capturePostSamples, has been evaluated by the local fallback detector, so
\* that the magnitude the detector keeps for its next jerk is the one of the
\* sample appended last.
C25_LocalDetectorSeesEveryAppendedSample ==
    nAppended > 0 => lastMagLocal = LastAppended.accel_mag

\* a tick of loop() on which the coarse trigger fired and the capture began
TriggerFired == op'.name = "loopSample" /\ pc' = "capture"

\* C26: when the coarse trigger fires on a tick, the sample of that tick is
\* above 1.6 g or differs from the sample appended just before it by a jerk
\* above 6 g/s; a magnitude kept from an older tick does not fire it.
C26_TriggerJerkFromPrecedingSample ==
    [][TriggerFired =>
          \/ LastAppended'.accel_mag > 160
          \/ JerkOf(LastAppended'.accel_mag, LastAppended.accel_mag) > 600]_vars

\* the full ring read from its oldest sample, the one at the write index, to
\* its newest
Chronological(buf, idx) ==
    [i \in 1..EVENT_WINDOW_SIZE |->
        buf[((idx + i - 1) % EVENT_WINDOW_SIZE) + 1]]

\* C27: the features of a model attempt are those of the window's samples
\* taken in chronological order, oldest first, wherever the write index is.
C27_FeaturesOfChronologicalWindow ==
    op.name = "extractFeatures"
        => features = extractFeatures(Chronological(imuBuffer, bufferIndex),
                                      EVENT_WINDOW_SIZE)

\* the sample read at now, on the tick that triggered the attempt, sits k
\* slots behind the newest slot of the ring
TriggerSampleBack(buf, idx, k, now) ==
    buf[((idx + 2 * EVENT_WINDOW_SIZE - 1 - k) % EVENT_WINDOW_SIZE) + 1].timestamp
        = now

\* the order of a model attempt, up to the classification: the trigger tick
\* stamps lastMLAttemptMs and starts the capture; every step of the capture
\* that appends a sample comes after an updateLEDs call made since the sample
\* before it; the capture ends with its POST_SAMPLES-th sample, in the step
\* that classifies the window, and only there; the triggering sample is then
\* POST_SAMPLES slots behind the newest and still in the window
AttemptOrder ==
    /\ TriggerFired =>
          /\ lastMLAttemptMs' = clock
          /\ loopNow' = clock
          /\ capI' = 0
          /\ TriggerSampleBack(imuBuffer', bufferIndex', 0, clock)
    /\ (pc = "capture" /\ nAppended' # nAppended) =>
          /\ nAppended' = nAppended + 1
          /\ capLedsAt # -1
          /\ op'.name \in {"captureSample", "classify"}
          /\ lastMLAttemptMs' = loopNow
          /\ TriggerSampleBack(imuBuffer', bufferIndex', capI + 1, loopNow)
    /\ op'.name = "captureSample" =>
          /\ capI' = capI + 1
          /\ capI' < POST_SAMPLES
          /\ pc' = "capture"
    /\ op'.name = "classify" =>
          /\ pc = "capture"
          /\ capI + 1 = POST_SAMPLES
          /\ POST_SAMPLES < EVENT_WINDOW_SIZE
          /\ pc' = "loop"
          /\ op'.cls = classifyEvent(extractFeatures(imuBuffer',
                                                    EVENT_WINDOW_SIZE))
    /\ (pc \in {"capture", "captureGreen"} /\ pc' = "loop") =>
          op'.name = "classify"

\* a Brake that is showing when the window is classified
BrakeAtClassification ==
    /\ op'.name = "classify"
    /\ currentPattern = LED_BRAKE
    /\ brakeEndTime # 0

\* C28, as stated: a model attempt stamps lastMLAttemptMs, appends exactly
\* POST_SAMPLES further samples with an updateLEDs call before each, and
\* classifies once; a Brake whose end-time passed during the capture is not
\* showing any more when the window is classified.
C28_AttemptOrderAndBrakeReverted ==
    [][/\ AttemptOrder
       /\ BrakeAtClassification => ~(clock > brakeEndTime)]_vars

\* C28, amended: the same order; a Brake that is showing when the window is
\* classified had not passed its end-time at the last updateLEDs call of the
\* capture.
C28_AttemptOrderAndBrakeRevertedAtLastCall ==
    [][/\ AttemptOrder
       /\ BrakeAtClassification => ~(capLedsAt > brakeEndTime)]_vars

\* an attempt classified its window while a Brake fired before the capture
\* was still showing, after the capture's updateLEDs calls
C28_Witness ==
    /\ op.name = "classify"
    /\ op.patAt = LED_BRAKE
    /\ capLedsAt > loopNow
    /\ capI + 1 = POST_SAMPLES
    /\ lastMLAttemptMs = loopNow
    /\ TriggerSampleBack(imuBuffer, bufferIndex, POST_SAMPLES, loopNow)

\* now is later than deadline on the wrapping clock, by less than half a turn
Passed(now, deadline) == Sub32(now, deadline) \in 1..(ULONG_MOD \div 2)

\* a step in which updateLEDs ran at clock, and the brakeEndTime it tested
UpdateLEDsRan ==
    \/ op'.name \in {"loopIdle", "captureWait", "classify"}
    \/ op'.name = "loopSample" /\ pc' # "capture"

EndTimeTested ==
    IF op'.name \in {"loopSample", "classify"} THEN op'.endAfter
    ELSE brakeEndTime

\* a step in which updateLEDs found the connect indicator timed out
IndicatorFoundDue ==
    \/ op'.name = "greenTest"
    \/ op'.name \in {"loopSample", "classify"} /\ op'.expired = "green"

\* C29: on the wrapping clock every timeout is a comparison of elapsed time:
\* updateLEDs ends a Brake exactly when its end-time has passed, ends the
\* connect indicator exactly when its time box has passed, and a channel is
\* stamped only when its cooldown has elapsed since its last stamp, also
\* across the wrap and when the end-time is 0.
C29_TimeoutsCompareElapsedTime ==
    [][/\ op'.expired = "brake" => Passed(clock, EndTimeTested)
       /\ (UpdateLEDsRan /\ currentPattern' = LED_BRAKE)
             => ~Passed(clock, brakeEndTime')
       /\ IndicatorFoundDue => Passed(clock, connectGreenUntil)
       /\ (UpdateLEDsRan /\ currentPattern' = LED_CONNECTED_GREEN)
             => ~Passed(clock, connectGreenUntil)
       /\ StampedApart(lastLocalBrakeMs, lastLocalBrakeMs',
                       LOCAL_BRAKE_COOLDOWN_MS)
       /\ StampedApart(lastLocalCrashMs, lastLocalCrashMs',
                       LOCAL_CRASH_COOLDOWN_MS)
       /\ StampedApart(lastMLBrakeMs, lastMLBrakeMs', ML_BRAKE_COOLDOWN_MS)
       /\ StampedApart(lastMLCrashMs, lastMLCrashMs', ML_CRASH_COOLDOWN_MS)
       /\ StampedApart(lastMLAttemptMs, lastMLAttemptMs',
                       ML_ATTEMPT_COOLDOWN_MS)]_vars

\* C30: while the Crash pattern (the crash alert state of the legacy
\* firmware) is showing, a command other than the dismiss command leaves it
\* showing.
C30_OnlyDismissLeavesCrash ==
    [][/\ (/\ currentPattern = LED_CRASH
           /\ op'.name \in {"onWrite", "onWriteIoT"}
           /\ op'.token # "CRASH_DISMISS")
          => currentPattern' = LED_CRASH
       /\ (/\ currentState = STATE_CRASH_ALERT
           /\ op'.name = "onWriteLegacy"
           /\ (op'.token = << >> \/ op'.token[1] # CMD_CRASH_FALSE_ALARM))
          => currentState' = STATE_CRASH_ALERT]_vars

\* C31: a tick of loop() whose sample meets the local Crash condition
\* (accel_mag > 3.0 or jerk > 40) does not take the local Brake branch, neither
\* firing nor extending a Brake, also when the crash channel is in its
\* cooldown or Crash is showing.
C31_CrashSampleNeverFiresLocalBrake ==
    (op.name = "loopSample" /\ op.crashCond)
        => op.det \notin {"brake_fire", "brake_extend"}

\* C32: a channel that has never fired (its stamp is still the 0 of boot) is
\* not held back by its cooldown: a tick that meets the local Crash condition
\* while Crash is not showing fires the local Crash, a tick that meets only
\* the local Brake condition takes the Brake branch, and a first model Crash
\* or Brake classification fires.
C32_UnfiredChannelNotBlocked ==
    /\ (/\ op.name = "loopSample" /\ op.crashCond /\ op.stamps[2] = 0
        /\ op.patAt # LED_CRASH)
          => op.det = "crash"
    /\ (/\ op.name = "loopSample" /\ op.brakeCond /\ ~op.crashCond
        /\ op.stamps[1] = 0)
          => op.det \in {"brake_fire", "brake_extend"}
    /\ (/\ op.name = "classify" /\ op.cls = CLASS_CRASH /\ op.stamps[4] = 0
        /\ op.patAt # LED_CRASH)
          => op.act = "crash_fire"
    /\ (op.name = "classify" /\ op.cls = CLASS_BRAKE /\ op.stamps[3] = 0)
          => op.act = "brake_fire"

\* the number of event notifications a step owes: one for a local fire, for a
\* model fire and for a classification that is only reported, while the link
\* is connected, and none otherwise
NotificationsOwed(o, connected) ==
    IF connected /\ \/ o.name = "loopSample" /\ o.det \in {"crash", "brake_fire"}
                    \/ o.name = "classify"
                         /\ o.act \in {"brake_fire", "crash_fire", "report"}
    THEN 1 ELSE 0

\* C33: whether a detection fires does not depend on the link; a fire stamps
\* its channel and requests its pattern with the link down as with the link
\* up; every step sends exactly the notifications it owes, so a fire made
\* with the link down is notified neither then nor by any later step.
C33_DisconnectedFireActsButNeverNotifies ==
    [][/\ Len(op'.notes) = NotificationsOwed(op', deviceConnected)
       /\ op'.name = "loopSample" =>
             /\ (op'.det = "crash") <=>
                    /\ currentPattern # LED_CRASH
                    /\ Sub32(clock, lastLocalCrashMs) >= LOCAL_CRASH_COOLDOWN_MS
                    /\ op'.crashCond
             /\ (op'.det \in {"brake_fire", "brake_extend"}) <=>
                    /\ op'.det # "crash"
                    /\ Sub32(clock, lastLocalBrakeMs) >= LOCAL_BRAKE_COOLDOWN_MS
                    /\ op'.brakeCond
             /\ op'.det = "crash" =>
                    /\ lastLocalCrashMs' = clock
                    /\ currentPattern' = LED_CRASH
             /\ op'.det = "brake_fire" =>
                    /\ lastLocalBrakeMs' = clock
                    /\ op'.endAfter = Add32(clock, 800)
                    /\ currentPattern' = LED_BRAKE
       /\ op'.name = "classify" =>
             /\ op'.act = "crash_fire" =>
                    /\ lastMLCrashMs' = loopNow
                    /\ op'.rec.currentPattern = LED_CRASH
             /\ op'.act = "brake_fire" =>
                    /\ lastMLBrakeMs' = loopNow
                    /\ op'.rec.currentPattern = LED_BRAKE
                    /\ op'.rec.brakeEndTime = Add32(clock, 900)]_vars

\* the local Crash fired with the link down: stamped, showing, not notified
C33_Witness ==
    /\ op.name = "loopSample"
    /\ op.det = "crash"
    /\ ~deviceConnected
    /\ op.notes = << >>
    /\ lastLocalCrashMs = op.t
    /\ currentPattern = LED_CRASH

\* C34: in every reachable state the resting pattern agrees with the link:
\* Armed shows only while connected, Idle only while not connected, and
\* savedPattern is Armed or Idle.
C34_RestingPatternAgreesWithLink ==
    /\ currentPattern = LED_ARMED_RED => deviceConnected
    /\ currentPattern = LED_IDLE => ~deviceConnected
    /\ savedPattern \in {LED_ARMED_RED, LED_IDLE}

\* a turn of loop() that read a sample
LoopSampleRead == pc = "loop" /\ nAppended' = nAppended + 1

\* the local path ran on the sample just read: its verdict is the one of the
\* local detector on that sample and the magnitude it keeps is the sample's
LocalPathEvaluated ==
    /\ lastMagLocal' = LastAppended'.accel_mag
    /\ op'.det = LocalFallback(Led, LastAppended', clock, lastMagLocal,
                               lastLocalBrakeMs, lastLocalCrashMs,
                               deviceConnected).det

\* loop() is between samples, the window is full and the attempt cooldown
\* has expired
AttemptDue ==
    /\ pc = "loop"
    /\ bufferFull
    /\ CooldownElapsed(clock, lastMLAttemptMs, ML_ATTEMPT_COOLDOWN_MS)

\* loop() has just started a model attempt
AttemptMade == op.name = "loopSample" /\ pc = "capture"

\* the sensor delivers no further sample
SensorDry == nAppended >= MaxSamples \/ nAppended + nCallbacks >= MaxInputs

\* the window is full with the sample just read, the attempt cooldown has
\* expired and the coarse trigger condition holds on the sample
AttemptCalledFor ==
    /\ bufferFull'
    /\ CooldownElapsed(clock, lastMLAttemptMs, ML_ATTEMPT_COOLDOWN_MS)
    /\ op'.coarse

\* C35: neither detection path starves the other.  Every sample read in
\* loop() is evaluated by the local path, whatever the model path's cooldown
\* state; a model attempt starts only on such a turn, so the local path runs
\* between any two attempts; a sample read in loop() with the window full,
\* the attempt cooldown expired and the coarse trigger condition holding
\* starts an attempt; and, the main task being scheduled fairly, once the
\* window is full and the attempt cooldown has expired loop() reads a further
\* sample, and a capture that has begun returns to loop(), as long as the
\* sensor delivers.
C35_NeitherPathStarves ==
    /\ [][/\ LoopSampleRead => LocalPathEvaluated
          /\ TriggerFired => LoopSampleRead
          /\ LoopSampleRead /\ AttemptCalledFor => TriggerFired]_vars
    /\ ((AttemptDue /\ op.name # "loopSample")
           ~> (op.name = "loopSample" \/ SensorDry))
    /\ (pc = "capture" ~> (pc = "loop" \/ SensorDry))

\* a second model attempt has started, on a sample the local path evaluated
C35_Witness ==
    /\ AttemptMade
    /\ op.coarse
    /\ op.stamps[5] # 0
    /\ lastMagLocal = LastAppended.accel_mag

\* C36: the Off pattern is reachable by command: whenever the link is up,
\* so that a command can arrive, there is an inbound token whose handling by
\* CommandCallbacks::onWrite leaves the pattern Off.
C36_NormalOffTokenSetsOff ==
    deviceConnected =>
        \E value \in Payloads :
            onWrite(Led, value, deviceConnected).currentPattern = LED_OFF

\* a step in which updateLEDs ran at clock, on the pattern it found showing
\* and left showing
UpdateLEDsRanOnPattern ==
    /\ UpdateLEDsRan \/ (pc \in {"loopGreen", "captureGreen"} /\ pc' # pc)
    /\ currentPattern' = currentPattern

\* the time of the last advance before the step, and whether the step advanced
SinceLastAdvance == Sub32(clock, lastLEDUpdate)

StepAdvanced == lastLEDUpdate' = clock

\* C37, as stated: updateLEDs advances the animation step of the pattern
\* showing only when more than that pattern's interval has elapsed since the
\* pattern's last advance, and a call made earlier leaves the step as it was.
C37_AdvanceOnlyAfterOwnInterval ==
    [][UpdateLEDsRanOnPattern =>
          /\ StepAdvanced =>
                SinceLastAdvance > AnimationInterval(currentPattern)
          /\ SinceLastAdvance <= AnimationInterval(currentPattern) =>
                ledAnimationStep' = ledAnimationStep]_vars

\* C38: the firmware runs with constants such that, in each variant, both
\* crash cooldowns are at least 2000 ms, both brake cooldowns are below
\* 1000 ms, and every crash cooldown is longer than every brake cooldown.
C38_CrashMultiSecondBrakeSubSecond ==
    pc # "setup" =>
    \A v \in FirmwareCooldowns :
        /\ v.localCrash >= 2000 /\ v.mlCrash >= 2000
        /\ v.localBrake < 1000 /\ v.mlBrake < 1000
        /\ \A c \in {v.localCrash, v.mlCrash}, b \in {v.localBrake, v.mlBrake} :
              c > b

\* the leaves of classify_event in the order of the source: the tests on the
\* way to the leaf, << k, TRUE, t >> for features[k] <= t taken and
\* << k, FALSE, t >> for its else branch, and the label in the leaf's comment
TreeLeaves ==
    << [path |-> << <<25, TRUE, 156149>>, <<30, TRUE, 571526>>,
                    <<38, TRUE, 516850>>, <<6, TRUE, 462831>> >>,
        label |-> "normal"],
       [path |-> << <<25, TRUE, 156149>>, <<30, TRUE, 571526>>,
                    <<38, TRUE, 516850>>, <<6, FALSE, 462831>>,
                    <<57, TRUE, 307517>> >>,
        label |-> "turn"],
       [path |-> << <<25, TRUE, 156149>>, <<30, TRUE, 571526>>,
                    <<38, TRUE, 516850>>, <<6, FALSE, 462831>>,
                    <<57, FALSE, 307517>>, <<13, TRUE, 887556>> >>,
        label |-> "brake"],
       [path |-> << <<25, TRUE, 156149>>, <<30, TRUE, 571526>>,
                    <<38, TRUE, 516850>>, <<6, FALSE, 462831>>,
                    <<57, FALSE, 307517>>, <<13, FALSE, 887556>>,
                    <<39, TRUE, 63562>> >>,
        label |-> "turn"],
       [path |-> << <<25, TRUE, 156149>>, <<30, TRUE, 571526>>,
                    <<38, TRUE, 516850>>, <<6, FALSE, 462831>>,
                    <<57, FALSE, 307517>>, <<13, FALSE, 887556>>,
                    <<39, FALSE, 63562>>, <<41, TRUE, 811531>> >>,
        label |-> "normal"],
       [path |-> << <<25, TRUE, 156149>>, <<30, TRUE, 571526>>,
                    <<38, TRUE, 516850>>, <<6, FALSE, 462831>>,
                    <<57, FALSE, 307517>>, <<13, FALSE, 887556>>,
                    <<39, FALSE, 63562>>, <<41, FALSE, 811531>> >>,
        label |-> "bump"],
       [path |-> << <<25, TRUE, 156149>>, <<30, TRUE, 571526>>,
                    <<38, FALSE, 516850>>, <<17, TRUE, 145395>>,
                    <<11, TRUE, 917256>> >>,
        label |-> "turn"],
       [path |-> << <<25, TRUE, 156149>>, <<30, TRUE, 571526>>,
                    <<38, FALSE, 516850>>, <<17, TRUE, 145395>>,
                    <<11, FALSE, 917256>>, <<35, TRUE, 956297>>,
                    <<43, TRUE, 81519>> >>,
        label |-> "bump"],
       [path |-> << <<25, TRUE, 156149>>, <<30, TRUE, 571526>>,
                    <<38, FALSE, 516850>>, <<17, TRUE, 145395>>,
                    <<11, FALSE, 917256>>, <<35, TRUE, 956297>>,
                    <<43, FALSE, 81519>> >>,
        label |-> "brake"],
       [path |-> << <<25, TRUE, 156149>>, <<30, TRUE, 571526>>,
                    <<38, FALSE, 516850>>, <<17, TRUE, 145395>>,
                    <<11, FALSE, 917256>>, <<35, FALSE, 956297>> >>,
        label |-> "normal"],
       [path |-> << <<25, TRUE, 156149>>, <<30, TRUE, 571526>>,
                    <<38, FALSE, 516850>>, <<17, FALSE, 145395>>,
                    <<34, TRUE, 112578>> >>,
        label |-> "brake"],
       [path |-> << <<25, TRUE, 156149>>, <<30, TRUE, 571526>>,
                    <<38, FALSE, 516850>>, <<17, FALSE, 145395>>,
                    <<34, FALSE, 112578>>, <<52, TRUE, 356674>>,
                    <<13, TRUE, 914238>> >>,
        label |-> "normal"],
       [path |-> << <<25, TRUE, 156149>>, <<30, TRUE, 571526>>,
                    <<38, FALSE, 516850>>, <<17, FALSE, 145395>>,
                    <<34, FALSE, 112578>>, <<52, TRUE, 356674>>,
                    <<13, FALSE, 914238>> >>,
        label |-> "bump"],
       [path |-> << <<25, TRUE, 156149>>, <<30, TRUE, 571526>>,
                    <<38, FALSE, 516850>>, <<17, FALSE, 145395>>,
                    <<34, FALSE, 112578>>, <<52, FALSE, 356674>> >>,
        label |-> "brake"],
       [path |-> << <<25, TRUE, 156149>>, <<30, FALSE, 571526>>,
                    <<28, TRUE, 92892>> >>,
        label |-> "normal"],
       [path |-> << <<25, TRUE, 156149>>, <<30, FALSE, 571526>>,
                    <<28, FALSE, 92892>>, <<22, TRUE, 622492>> >>,
        label |-> "brake"],
       [path |-> << <<25, TRUE, 156149>>, <<30, FALSE, 571526>>,
                    <<28, FALSE, 92892>>, <<22, FALSE, 622492>> >>,
        label |-> "normal"],
       [path |-> << <<25, FALSE, 156149>>, <<19, TRUE, 438382>> >>,
        label |-> "crash"],
       [path |-> << <<25, FALSE, 156149>>, <<19, FALSE, 438382>>,
                    <<16, TRUE, 153465>>, <<14, TRUE, 381496>>,
                    <<7, TRUE, 62198>> >>,
        label |-> "normal"],
       [path |-> << <<25, FALSE, 156149>>, <<19, FALSE, 438382>>,
                    <<16, TRUE, 153465>>, <<14, TRUE, 381496>>,
                    <<7, FALSE, 62198>>, <<25, TRUE, 183816>> >>,
        label |-> "brake"],
       [path |-> << <<25, FALSE, 156149>>, <<19, FALSE, 438382>>,
                    <<16, TRUE, 153465>>, <<14, TRUE, 381496>>,
                    <<7, FALSE, 62198>>, <<25, FALSE, 183816>> >>,
        label |-> "bump"],
       [path |-> << <<25, FALSE, 156149>>, <<19, FALSE, 438382>>,
                    <<16, TRUE, 153465>>, <<14, FALSE, 381496>> >>,
        label |-> "bump"],
       [path |-> << <<25, FALSE, 156149>>, <<19, FALSE, 438382>>,
                    <<16, FALSE, 153465>>, <<60, TRUE, 340081>> >>,
        label |-> "bump"],
       [path |-> << <<25, FALSE, 156149>>, <<19, FALSE, 438382>>,
                    <<16, FALSE, 153465>>, <<60, FALSE, 340081>>,
                    <<13, TRUE, 927018>> >>,
        label |-> "normal"],
       [path |-> << <<25, FALSE, 156149>>, <<19, FALSE, 438382>>,
                    <<16, FALSE, 153465>>, <<60, FALSE, 340081>>,
                    <<13, FALSE, 927018>> >>,
        label |-> "bump"] >>

\* vector f takes every test on the way to the leaf
ReachesLeaf(f, leaf) ==
    \A j \in DOMAIN leaf.path :
        (f[leaf.path[j][1] + 1] <= leaf.path[j][3]) = leaf.path[j][2]

LeavesReached(f) == {i \in DOMAIN TreeLeaves : ReachesLeaf(f, TreeLeaves[i])}

C40_CrashAlertLeftOnlyByFalseAlarm ==
    [][(currentState = STATE_CRASH_ALERT /\ currentState' # STATE_CRASH_ALERT)
          => (op'.name = "legacyWrite"
              /\ op'.token = << CMD_CRASH_FALSE_ALARM >>)]_vars

====
